---- MODULE Spec2Model ----
(***************************************************************************)
(* A model of the magma reverse proxy: the varint / packet codec           *)
(* (src/io), the stream Cryptor (src/cryptor.rs), the target selectors and *)
(* route resolution (src/proxy.rs) and the bridge (src/bridge/mod.rs).     *)
(*                                                                         *)
(* Each component has its own specification (SpecCodec, SpecCryptor,       *)
(* SpecSelector, SpecProxy, SpecBridge, SpecHandle, SpecServer,            *)
(* SpecFramer, SpecListen, SpecConfig) over its own variables; the         *)
(* variables of the other components stay at their idle value.             *)
(***************************************************************************)
EXTENDS Integers, Sequences, FiniteSets, TLC

VARIABLES
    \* codec: an in-memory byte stream (Vec<u8> / Cursor) and the calls made on it
    wire,        \* bytes written to the stream and not yet read
    clog,        \* the calls made so far, in order, with their results
    \* cryptor
    cr_cryptor,  \* the Cryptor value (Uninitialized / Initialized{decryptor, inbuffer})
    cr_plain,    \* the framed plaintext that was encrypted for this run
    cr_cipher,   \* ciphertext not yet handed to next_packet
    cr_results,  \* the result of every next_packet call so far, in order
    \* selectors
    sel,         \* the selector object (kind, targets, index)
    sel_returned,\* the targets returned by next_target so far, in order
    \* proxy::handle
    px_proxy,    \* the Proxy configuration (routes, fallback_method)
    px_conn,     \* the connection being handled (handshake, upstream reachability)
    px_out,      \* what handle did for it
    \* bridge::create
    br,          \* the bridge: protocol state, the two tasks, socket halves, join
    \* proxy::handle on the bytes of one connection
    cn,          \* the connection: the proxy, the client's bytes, what handle did
    \* Server::spawn
    sv,          \* the supervisor of one listener: attempts remaining, position
    \* the packet framer: readers of length-prefixed data, the compressed envelope
    fr,          \* a byte stream, the calls made on it and the buffers they allocated
    \* proxy::listen
    ls,          \* the listener of one proxy and the connection tasks it spawned
    \* ConfigV1::build
    cf           \* the entries of the configuration file and the proxies built so far

codecVars == <<wire, clog>>
cryptVars == <<cr_cryptor, cr_plain, cr_cipher, cr_results>>
selVars   == <<sel, sel_returned>>
proxyVars == <<px_proxy, px_conn, px_out>>
bridgeVars == <<br>>
connVars   == <<cn>>
serverVars == <<sv>>
framerVars == <<fr>>
listenVars == <<ls>>
configVars == <<cf>>
vars == <<wire, clog, cr_cryptor, cr_plain, cr_cipher, cr_results,
          sel, sel_returned, px_proxy, px_conn, px_out, br, cn, sv, fr, ls, cf>>

\* the value of the variables of a component that is not running
Idle == [kind |-> "idle", tag |-> "idle", did |-> "idle"]

-----------------------------------------------------------------------------
(* 32-bit words.  An i32 is an Int in -2^31 .. 2^31-1; a u32 / the bit      *)
(* pattern of an i32 is a function 0..31 -> {0,1} (bit 0 least significant). *)

Bit == 0..31

\* `value as u32`: the two's-complement bit pattern of an i32
Bits32(v) ==
    LET u == IF v >= 0 THEN v ELSE (v + 2147483647) + 1
    IN  [i \in Bit |-> IF i = 31 THEN (IF v < 0 THEN 1 ELSE 0) ELSE (u \div (2 ^ i)) % 2]

RECURSIVE LowBitsValue(_, _)
LowBitsValue(b, n) == IF n = 0 THEN 0 ELSE LowBitsValue(b, n - 1) + b[n - 1] * (2 ^ (n - 1))

\* the i32 that has bit pattern b
I32(b) == IF b[31] = 1 THEN (LowBitsValue(b, 31) - 2147483647) - 1 ELSE LowBitsValue(b, 31)

\* x >> n on a u32 (logical)
Shr32(b, n) == [i \in Bit |-> IF i + n <= 31 THEN b[i + n] ELSE 0]

\* i32::overflowing_shl(n).0: the shift amount is taken modulo 32, high bits are lost
OverflowingShl(b, n) == LET s == n % 32 IN [i \in Bit |-> IF i >= s THEN b[i - s] ELSE 0]

\* a | b
Or32(a, b) == [i \in Bit |-> IF a[i] = 1 \/ b[i] = 1 THEN 1 ELSE 0]

IsZero32(b) == \A i \in Bit : b[i] = 0

-----------------------------------------------------------------------------
(* Results of fallible calls: Result<T> and the ways a call can fail to     *)
(* return one.                                                              *)

Ok(v, n)  == [tag |-> "Ok", value |-> v, consumed |-> n]
Err(e, n) == [tag |-> "Err", error |-> e, consumed |-> n]

VarIntTooLong == "VarInt too long (max length: 5)"
UnexpectedEof == "UnexpectedEof"
EmptyPacket   == "Attempted to read empty packet"

-----------------------------------------------------------------------------
(* src/io/sync.rs, src/io/async.rs, src/io.rs, src/main.rs: the varint      *)
(* codec (the four copies are the same code).                               *)

\* mutant: the length check is made before the byte is counted, so a sixth byte is
\* accepted
RECURSIVE ReadVarIntLoopLate(_, _, _, _)
ReadVarIntLoopLate(bytes, pos, num_read, result) ==
    IF pos > Len(bytes) THEN Err(UnexpectedEof, pos - 1)
    ELSE LET read   == bytes[pos]
             value  == Bits32(read % 128)
             result2 == Or32(result, OverflowingShl(value, 7 * num_read))
         IN  IF num_read > 5 THEN Err(VarIntTooLong, pos)
             ELSE IF read < 128 THEN Ok(I32(result2), pos)
             ELSE ReadVarIntLoopLate(bytes, pos + 1, num_read + 1, result2)

\* mutant: each byte is shifted by 8 bits instead of 7
RECURSIVE ReadVarIntLoopShift8(_, _, _, _)
ReadVarIntLoopShift8(bytes, pos, num_read, result) ==
    IF pos > Len(bytes) THEN Err(UnexpectedEof, pos - 1)
    ELSE LET read   == bytes[pos]
             value  == Bits32(read % 128)
             result2 == Or32(result, OverflowingShl(value, 8 * num_read))
         IN  IF num_read + 1 > 5 THEN Err(VarIntTooLong, pos)
             ELSE IF read < 128 THEN Ok(I32(result2), pos)
             ELSE ReadVarIntLoopShift8(bytes, pos + 1, num_read + 1, result2)

\* the loop of read_var_int: pos is the next byte of the stream, num_read and
\* result are the locals before this iteration
RECURSIVE ReadVarIntLoop(_, _, _, _)
ReadVarIntLoop(bytes, pos, num_read, result) ==
    IF pos > Len(bytes) THEN Err(UnexpectedEof, pos - 1)              \* read_u8()?
    ELSE LET read   == bytes[pos]
             value  == Bits32(read % 128)                             \* read & 0b0111_1111
             result2 == Or32(result, OverflowingShl(value, 7 * num_read))
         IN  IF num_read + 1 > 5 THEN Err(VarIntTooLong, pos)
             ELSE IF read < 128 THEN Ok(I32(result2), pos)            \* read & 0b1000_0000 == 0
             ELSE ReadVarIntLoop(bytes, pos + 1, num_read + 1, result2)

\* read_var_int on a stream holding `bytes`: Ok(value) or Err, and the bytes consumed
ReadVarInt(bytes) == ReadVarIntLoop(bytes, 1, 0, Bits32(0))

\* mutant: the continuation bit is set on every byte, the last included
RECURSIVE WriteVarIntLoopAllCont(_)
WriteVarIntLoopAllCont(x) ==
    LET temp == LowBitsValue(x, 7)
        x2   == Shr32(x, 7)
    IN  IF IsZero32(x2) THEN <<temp + 128>> ELSE <<temp + 128>> \o WriteVarIntLoopAllCont(x2)

\* mutant: a fixed-width writer, always five bytes
RECURSIVE WriteVarIntFixed(_, _)
WriteVarIntFixed(x, n) ==
    IF n = 1 THEN <<LowBitsValue(x, 7)>>
    ELSE <<LowBitsValue(x, 7) + 128>> \o WriteVarIntFixed(Shr32(x, 7), n - 1)

WriteVarIntLoopPadded(x) == WriteVarIntFixed(x, 5)

\* the loop of write_var_int on x: u32
RECURSIVE WriteVarIntLoop(_)
WriteVarIntLoop(x) ==
    LET temp == LowBitsValue(x, 7)                                    \* (x & 0b0111_1111) as u8
        x2   == Shr32(x, 7)                                           \* x >>= 7
    IN  IF IsZero32(x2) THEN <<temp>>
        ELSE <<temp + 128>> \o WriteVarIntLoop(x2)                    \* temp |= 0b1000_0000

\* the bytes write_var_int(value) appends to the stream
WriteVarInt(value) == WriteVarIntLoop(Bits32(value))

-----------------------------------------------------------------------------
(* src/io/mod.rs, src/io/sync.rs, src/io/async.rs, src/io.rs: packets.      *)

Ret(n) == [tag |-> "Ret", value |-> n]
Hang   == [tag |-> "Hang"]
Panic(why) == [tag |-> "Panic", why |-> why]

\* the loop of var_int_length on x: i32 (x >>= 7 is an arithmetic shift); the loop
\* never ends once x >> 7 = x with x # 0, which is where every negative x arrives
RECURSIVE VarIntLengthLoop(_, _)
VarIntLengthLoop(x, size) ==
    LET x2 == x \div 128
    IN  IF x2 = 0 THEN Ret(size)
        ELSE IF x2 = x THEN Hang
        ELSE VarIntLengthLoop(x2, size + 1)

VarIntLength(x) == VarIntLengthLoop(x, 1)

\* mutant: the writer as the wire format wants it, payload included
WriteUncompressedPacketWithData(packet) ==
    LET id_length == VarIntLength(packet.id)
    IN  IF id_length.tag = "Hang" THEN Hang
        ELSE [tag |-> "Ok",
              bytes |-> WriteVarInt(Len(packet.data) + id_length.value)
                        \o WriteVarInt(packet.id) \o packet.data]

\* mutant: the length prefix counts the payload only
WriteUncompressedPacketShortLen(packet) ==
    LET id_length == VarIntLength(packet.id)
    IN  IF id_length.tag = "Hang" THEN Hang
        ELSE [tag |-> "Ok",
              bytes |-> WriteVarInt(Len(packet.data)) \o WriteVarInt(packet.id)]

\* write_uncompressed_packet: the bytes it appends to the stream (it writes the
\* length and the id, and returns Ok(()) without writing packet.data)
WriteUncompressedPacket(packet) ==
    LET id_length == VarIntLength(packet.id)
    IN  IF id_length.tag = "Hang" THEN Hang
        ELSE [tag |-> "Ok",
              bytes |-> WriteVarInt(Len(packet.data) + id_length.value)
                        \o WriteVarInt(packet.id)]

\* bytes[from..], the rest of a stream
Rest(bytes, from) == SubSeq(bytes, from, Len(bytes))

\* read_uncompressed_packet on a stream holding `bytes`
ReadUncompressedPacket(bytes) ==
    LET length == ReadVarInt(bytes)
    IN  IF length.tag = "Err" THEN length
        ELSE IF length.value = 0 THEN Err(EmptyPacket, length.consumed)
        ELSE LET id == ReadVarInt(Rest(bytes, length.consumed + 1))
                 at == length.consumed + id.consumed
             IN  IF id.tag = "Err" THEN Err(id.error, at)
                 ELSE LET id_length == VarIntLength(id.value)
                      IN  IF id_length.tag = "Hang" THEN Hang
                          \* `length as usize` of a negative i32 is above isize::MAX, and
                          \* length - id_length below zero overflows (a panic when checked,
                          \* a wrapped size above isize::MAX otherwise): vec![0u8; n] panics
                          ELSE IF length.value < 0 \/ length.value < id_length.value
                               THEN Panic("data_length")
                          ELSE LET data_length == length.value - id_length.value
                               IN  IF Len(bytes) - at < data_length           \* read_exact
                                   THEN Err(UnexpectedEof, Len(bytes))
                                   ELSE Ok([id |-> id.value,
                                            data |-> SubSeq(bytes, at + 1, at + data_length)],
                                           at + data_length)

-----------------------------------------------------------------------------
(* The codec specification: calls on one in-memory stream.  Writes append   *)
(* to it, reads consume from its front; a stream that starts non-empty is   *)
(* an incoming one (bytes of a peer) and is only read.                      *)

MaxWrites  == 2      \* writes made on one stream
MaxReads   == 2      \* reads made on one stream
MaxPayload == 2      \* length of the generated payloads

\* the int32 values written: the ends of every 7-bit group, and the negative ones
VarIntValues ==
    {0, 1, 127, 128, 16383, 16384, 2097151, 2097152, 268435455, 268435456,
     2147483647, -1, -128, -2147483647 - 1}

\* n times the byte b
Repeat(b, n) == [i \in 1..n |-> b]

PayloadValues == {Repeat(255, n) : n \in 0..MaxPayload} \cup {<<0>>, <<1, 128>>}
PacketIds     == {0, 128, 2097151, -1}
Packets       == [id : PacketIds, data : PayloadValues]

\* incoming streams: six or seven bytes that all have the continuation bit set,
\* alone or followed by more, and varints cut short or using all five bytes
ContinuationRuns == UNION {[1..n -> {128, 255}] : n \in 6..7}
IncomingStreams ==
    {r \o t : r \in ContinuationRuns, t \in {<<>>, <<0>>}}
    \cup {<<128, 128, 128, 128, 128>>, <<255, 255, 255, 255, 127>>, <<128, 128, 128, 128, 0, 9>>,
          <<128>>, <<0>>, <<1, 128, 1>>, <<3, 0, 7>>, <<2, 5, 7, 9>>,
          \* a packet whose id 0 is written in two bytes, and one with the id -1
          <<2, 128, 0, 7>>, <<6, 255, 255, 255, 255, 15, 9>>,
          \* a packet whose length is -1
          <<255, 255, 255, 255, 15, 0>>}

NoReadYet == \A i \in 1..Len(clog) : clog[i].kind = "write"
NumReads  == Cardinality({i \in 1..Len(clog) : clog[i].kind = "read"})
\* no call of this thread is stuck or has panicked
CodecLive == \A i \in 1..Len(clog) : clog[i].res.tag \notin {"Hang", "Panic"}
CanWrite  == CodecLive /\ NoReadYet /\ Len(clog) < MaxWrites /\ (clog = <<>> => wire = <<>>)
CanRead   == CodecLive /\ NumReads < MaxReads

\* a call record: for a write, arg is the value written and res.bytes the bytes it
\* appended; for a read, arg is the stream it was made on and res what it returned
Call(kind, op, arg, res) == [kind |-> kind, op |-> op, arg |-> arg, res |-> res]

InitCodecIdle  == wire = <<>> /\ clog = <<>>
InitCryptIdle  == cr_cryptor = Idle /\ cr_plain = <<>> /\ cr_cipher = <<>> /\ cr_results = <<>>
InitSelIdle    == sel = Idle /\ sel_returned = <<>>
InitProxyIdle  == px_proxy = Idle /\ px_conn = Idle /\ px_out = Idle
InitBridgeIdle == br = Idle
InitConnIdle   == cn = Idle
InitServerIdle == sv = Idle
InitFramerIdle == fr = Idle
InitListenIdle == ls = Idle
InitConfigIdle == cf = Idle

InitCodec ==
    /\ wire \in {<<>>} \cup IncomingStreams
    /\ clog = <<>>
    /\ InitCryptIdle /\ InitSelIdle /\ InitProxyIdle /\ InitBridgeIdle
    /\ InitConnIdle /\ InitServerIdle /\ InitFramerIdle /\ InitListenIdle
    /\ InitConfigIdle

\* stream.write_var_int(value)
CallWriteVarInt ==
    /\ CanWrite
    /\ \E value \in VarIntValues :
         LET bytes == WriteVarInt(value)
         IN  /\ wire' = wire \o bytes
             /\ clog' = Append(clog, Call("write", "write_var_int", value,
                                          [tag |-> "Ok", bytes |-> bytes]))
    /\ UNCHANGED <<cryptVars, selVars, proxyVars, bridgeVars, connVars, serverVars,
                 framerVars, listenVars, configVars>>

\* stream.read_var_int()
CallReadVarInt ==
    /\ CanRead
    /\ LET res == ReadVarInt(wire)
       IN  /\ wire' = Rest(wire, res.consumed + 1)
           /\ clog' = Append(clog, Call("read", "read_var_int", wire, res))
    /\ UNCHANGED <<cryptVars, selVars, proxyVars, bridgeVars, connVars, serverVars,
                 framerVars, listenVars, configVars>>

\* stream.write_uncompressed_packet(&packet)
CallWriteUncompressedPacket ==
    /\ CanWrite
    /\ \E packet \in Packets :
         LET res == WriteUncompressedPacket(packet)
         IN  /\ wire' = IF res.tag = "Ok" THEN wire \o res.bytes ELSE wire
             /\ clog' = Append(clog, Call("write", "write_uncompressed_packet", packet, res))
    /\ UNCHANGED <<cryptVars, selVars, proxyVars, bridgeVars, connVars, serverVars,
                 framerVars, listenVars, configVars>>

\* stream.read_uncompressed_packet()
CallReadUncompressedPacket ==
    /\ CanRead
    /\ LET res == ReadUncompressedPacket(wire)
       IN  /\ wire' = IF res.tag \in {"Ok", "Err"} THEN Rest(wire, res.consumed + 1) ELSE wire
           /\ clog' = Append(clog, Call("read", "read_uncompressed_packet", wire, res))
    /\ UNCHANGED <<cryptVars, selVars, proxyVars, bridgeVars, connVars, serverVars,
                 framerVars, listenVars, configVars>>

NextCodec ==
    \/ CallWriteVarInt
    \/ CallReadVarInt
    \/ CallWriteUncompressedPacket
    \/ CallReadUncompressedPacket

SpecCodec == InitCodec /\ [][NextCodec]_vars

-----------------------------------------------------------------------------
(* Claims on the codec, checked under SpecCodec.                            *)

\* k is the first read made on the stream
FirstRead(k) == k \in 1..Len(clog) /\ clog[k].kind = "read" /\ \A j \in 1..(k - 1) : clog[j].kind = "write"

\* C3 (as claimed): a packet with id in [0, 2^21) written by write_uncompressed_packet
\* is read back by read_uncompressed_packet with the same id and the same payload.
C3_PacketRoundTrip ==
    \A k \in 1..Len(clog) :
        ( /\ FirstRead(k) /\ clog[k].op = "read_uncompressed_packet"
          /\ clog[1].op = "write_uncompressed_packet"
          /\ clog[1].arg.id \in 0..2097151 )
        => /\ clog[k].res.tag = "Ok"
           /\ clog[k].res.value = clog[1].arg

\* C4 (as claimed): write_uncompressed_packet emits the varint of
\* varint_len(id) + len(payload), then the varint id, then the payload, so the value
\* of the length prefix is the number of bytes that follow it.
C4_WireLayout ==
    \A k \in 1..Len(clog) :
        (clog[k].op = "write_uncompressed_packet" /\ clog[k].res.tag = "Ok")
        => LET packet == clog[k].arg
               bytes  == clog[k].res.bytes
               idb    == WriteVarInt(packet.id)
               prefix == ReadVarInt(bytes)
           IN  /\ bytes = WriteVarInt(Len(idb) + Len(packet.data)) \o idb \o packet.data
               /\ prefix.tag = "Ok"
               /\ prefix.value = Len(bytes) - prefix.consumed

\* C5: read_var_int on the bytes written by write_var_int(v) returns v, for negative
\* v too, and consumes exactly the bytes written (what was written after them stays
\* in the stream).
C5_VarIntRoundTrip ==
    \A k \in 1..Len(clog) :
        (FirstRead(k) /\ clog[k].op = "read_var_int" /\ clog[1].op = "write_var_int")
        => /\ clog[k].res = Ok(clog[1].arg, Len(clog[1].res.bytes))
           /\ Len(clog[k].arg) >= Len(clog[1].res.bytes)

C5_Witness ==
    /\ Len(clog) = 3 /\ FirstRead(3)
    /\ clog[1].op = "write_var_int" /\ clog[1].arg < 0
    /\ clog[2].op = "write_var_int"
    /\ clog[3].op = "read_var_int" /\ clog[3].res.tag = "Ok"
    /\ wire = clog[2].res.bytes

\* the first n bytes of the stream all have the continuation bit set
ContinuationPrefix(bytes, n) == Len(bytes) >= n /\ \A i \in 1..n : bytes[i] >= 128

\* C6: read_var_int on a stream whose first six bytes all have the continuation bit
\* set returns the VarInt-too-long error after reading at most six bytes; it returns
\* no value.
C6_OverlongRejected ==
    \A k \in 1..Len(clog) :
        (clog[k].op = "read_var_int" /\ ContinuationPrefix(clog[k].arg, 6))
        => /\ clog[k].res.tag = "Err"
           /\ clog[k].res.error = VarIntTooLong
           /\ clog[k].res.consumed <= 6

C6_Witness ==
    /\ Len(clog) = 1 /\ clog[1].op = "read_var_int"
    /\ Len(clog[1].arg) = 7 /\ ContinuationPrefix(clog[1].arg, 7)
    /\ clog[1].res.tag = "Err" /\ Len(wire) = 1

\* the documented lengths of the boundary values
CanonicalLength(v) ==
    CASE v = 0 -> 1 [] v = 127 -> 1 [] v = 128 -> 2 [] v = 2097151 -> 3
      [] v = 2147483647 -> 5 [] v = -1 -> 5 [] OTHER -> 0

\* C7: write_var_int emits 1 to 5 bytes, every byte but the last with the
\* continuation bit set and the last with it clear, no more bytes than the value
\* needs, and 0, 127, 128, 2097151, 2147483647, -1 take 1, 1, 2, 3, 5, 5 bytes.
C7_CanonicalEncoding ==
    \A k \in 1..Len(clog) :
        clog[k].op = "write_var_int"
        => LET b == clog[k].res.bytes
               n == Len(b)
           IN  /\ n \in 1..5
               /\ \A i \in 1..(n - 1) : b[i] >= 128
               /\ b[n] < 128
               /\ n > 1 => b[n] # 0
               /\ CanonicalLength(clog[k].arg) # 0 => n = CanonicalLength(clog[k].arg)

C7_Witness ==
    /\ Len(clog) = 2
    /\ clog[1].op = "write_var_int" /\ clog[1].arg = -1 /\ Len(clog[1].res.bytes) = 5
    /\ clog[2].op = "write_var_int" /\ clog[2].arg = 2097151 /\ Len(clog[2].res.bytes) = 3

\* C28 (as claimed): read_uncompressed_packet on a stream that starts with the
\* length prefix L fails with the empty-packet error when L = 0; when L > 0 and the
\* stream holds the L bytes, which start with a whole varint id, it returns that id
\* and the rest of the L bytes as payload and has consumed the prefix and exactly L
\* bytes.
C28_ReadUncompressedPacket ==
    \A k \in 1..Len(clog) :
        clog[k].op = "read_uncompressed_packet"
        => LET stream == clog[k].arg
               res    == clog[k].res
               L      == ReadVarInt(stream)
               id     == ReadVarInt(Rest(stream, L.consumed + 1))
           IN  L.tag = "Ok"
               => /\ L.value = 0 => res = Err(EmptyPacket, L.consumed)
                  /\ (/\ L.value > 0 /\ Len(stream) - L.consumed >= L.value
                      /\ id.tag = "Ok" /\ id.consumed <= L.value)
                     => /\ res.tag = "Ok"
                        /\ res.consumed = L.consumed + L.value
                        /\ res.value.id = id.value
                        /\ res.value.data = SubSeq(stream, L.consumed + id.consumed + 1,
                                                   L.consumed + L.value)

\* C35 (as claimed): var_int_length(v) ends for every int32 v with the number of
\* bytes write_var_int(v) emits, and read_uncompressed_packet returns (a packet or
\* an error) on every stream, also when the packet id decodes to a negative value.
C35_VarIntLengthTerminates ==
    \A k \in 1..Len(clog) :
        /\ clog[k].op = "write_var_int"
           => VarIntLength(clog[k].arg) = Ret(Len(clog[k].res.bytes))
        /\ clog[k].op = "read_uncompressed_packet" => clog[k].res.tag \in {"Ok", "Err"}

\* C36 (as claimed): read_uncompressed_packet returns an error when the declared
\* length L is negative or smaller than the number of bytes of the id that follows.
C36_ShortLengthIsError ==
    \A k \in 1..Len(clog) :
        clog[k].op = "read_uncompressed_packet"
        => LET stream == clog[k].arg
               L      == ReadVarInt(stream)
               id     == ReadVarInt(Rest(stream, L.consumed + 1))
           IN  (/\ L.tag = "Ok" /\ L.value # 0 /\ id.tag = "Ok" /\ id.value >= 0
                /\ (L.value < 0 \/ L.value < id.consumed))
               => clog[k].res.tag = "Err"

-----------------------------------------------------------------------------
(* src/cryptor.rs: the Cryptor.  cfb8::Decryptor<Aes128> is a CFB-8 stream:  *)
(* each ciphertext byte is XORed with the first byte of the block cipher    *)
(* applied to the shift register, and is then shifted into the register.    *)
(* The block cipher is AES-128 in the program; here it is a small keyed     *)
(* mixing function over a two-byte register, which keeps what matters to    *)
(* the Cryptor: the stream is stateful and byte-granular.                   *)

RECURSIVE XorBits(_, _, _)
XorBits(a, b, n) ==
    IF n = 0 THEN 0 ELSE ((a + b) % 2) + 2 * XorBits(a \div 2, b \div 2, n - 1)

Xor8(a, b) == XorBits(a, b, 8)

CipherKey == <<75, 201>>

\* first byte of the block cipher applied to the register
KeyStream(key, reg) == (key[1] + 7 * key[2] + 3 * reg[1] + 5 * reg[2] + 11 * reg[1] * reg[2]) % 256

\* CFB-8 encryption of a run of bytes from register reg (the peer's side): the
\* ciphertext and the register afterwards
RECURSIVE Cfb8EncryptRun(_, _, _)
Cfb8EncryptRun(key, reg, plain) ==
    IF plain = <<>> THEN [cipher |-> <<>>, reg |-> reg]
    ELSE LET c    == Xor8(plain[1], KeyStream(key, reg))
             rest == Cfb8EncryptRun(key, <<reg[2], c>>, Tail(plain))
         IN  [cipher |-> <<c>> \o rest.cipher, reg |-> rest.reg]

\* the same over a long stream, evaluated 32 bytes at a time
RECURSIVE Cfb8Encrypt(_, _, _)
Cfb8Encrypt(key, reg, plain) ==
    IF Len(plain) <= 32 THEN Cfb8EncryptRun(key, reg, plain).cipher
    ELSE LET head == Cfb8EncryptRun(key, reg, SubSeq(plain, 1, 32))
         IN  head.cipher \o Cfb8Encrypt(key, head.reg, Rest(plain, 33))

\* Decryptor::decrypt_block_mut on a one-byte block: the plaintext byte and the
\* decryptor afterwards
Cfb8DecryptBlock(dec, c) ==
    [plain |-> Xor8(c, KeyStream(dec.key, dec.reg)),
     dec   |-> [key |-> dec.key, reg |-> <<dec.reg[2], c>>]]

Uninitialized == [tag |-> "Uninitialized"]

\* Cryptor::new(key): the key is also the initial register (the IV)
CryptorNew(key) ==
    [tag |-> "Initialized", decryptor |-> [key |-> key, reg |-> key], inbuffer |-> <<>>]

OkNone     == [tag |-> "Ok", some |-> FALSE, value |-> <<>>]
OkSome(b)  == [tag |-> "Ok", some |-> TRUE, value |-> b]
ErrOf(e)   == [tag |-> "Err", error |-> e]

Min(a, b) == IF a < b THEN a ELSE b

\* mutant: the whole slice is decrypted byte by byte, whatever its length, and an
\* incomplete length prefix is reported as incomplete
RECURSIVE DecryptRun(_, _)
DecryptRun(dec, data) ==
    IF data = <<>> THEN [plain |-> <<>>, dec |-> dec]
    ELSE LET one  == Cfb8DecryptBlock(dec, data[1])
             rest == DecryptRun(one.dec, Tail(data))
         IN  [plain |-> <<one.plain>> \o rest.plain, dec |-> rest.dec]

NextPacketStreaming(cryptor, data) ==
    IF cryptor.tag # "Initialized" THEN [cryptor |-> cryptor, res |-> Panic("uninitialized")]
    ELSE LET run    == DecryptRun(cryptor.decryptor, data)
             buffer == cryptor.inbuffer \o run.plain
             len    == ReadVarInt(buffer)
             keep(b) == [tag |-> "Initialized", decryptor |-> run.dec, inbuffer |-> b]
         IN  IF len.tag = "Err" THEN [cryptor |-> keep(buffer), res |-> OkNone]
             ELSE IF Len(buffer) - len.consumed < len.value
                  THEN [cryptor |-> keep(buffer), res |-> OkNone]
             ELSE [cryptor |-> keep(Rest(buffer, len.consumed + len.value + 1)),
                   res |-> OkSome(SubSeq(buffer, len.consumed + 1, len.consumed + len.value))]

\* Cryptor::next_packet(data): the Cryptor afterwards and what the call returns
NextPacket(cryptor, data) ==
    IF cryptor.tag # "Initialized"
    THEN [cryptor |-> cryptor, res |-> Panic("uninitialized")]         \* _ => panic!()
    \* data.into() makes the slice one cipher block, of one byte for CFB-8, and
    \* panics on any other length
    ELSE IF Len(data) # 1
    THEN [cryptor |-> cryptor, res |-> Panic("block length")]
    ELSE LET one    == Cfb8DecryptBlock(cryptor.decryptor, data[1])
             buffer == cryptor.inbuffer \o <<one.plain>>               \* extend_from_slice
             len    == ReadVarInt(buffer)                              \* cursor.read_var_int()
             keep(b) == [tag |-> "Initialized", decryptor |-> one.dec, inbuffer |-> b]
         IN  IF len.tag = "Err" THEN [cryptor |-> keep(buffer), res |-> ErrOf(len.error)]
             \* a negative length `as usize` is above isize::MAX: vec![0u8; n] panics
             ELSE IF len.value < 0 THEN [cryptor |-> keep(buffer), res |-> Panic("capacity")]
             ELSE LET packet_length == len.value
                      bytes_read    == Min(Len(buffer) - len.consumed, packet_length)
                      buf           == SubSeq(buffer, len.consumed + 1, len.consumed + bytes_read)
                  IN  IF bytes_read < packet_length
                      THEN [cryptor |-> keep(buffer), res |-> OkNone]
                      \* buffer.drain(0..packet_length)
                      ELSE [cryptor |-> keep(Rest(buffer, packet_length + 1)),
                            res |-> OkSome(buf)]

(* The Cryptor specification: a peer encrypts a stream of length-prefixed    *)
(* packets, and the ciphertext is handed to next_packet in fragments.       *)

MaxFragment  == 2     \* bytes handed to one next_packet call
MaxCrPackets == 2     \* packets in the encrypted stream
LongBody     == 128   \* a body whose length prefix takes two bytes

PacketBodies == {<<>>, <<0>>, <<1, 9>>, <<0, 255, 128>>, Repeat(7, LongBody)}

Frame(body) == WriteVarInt(Len(body)) \o body

RECURSIVE FrameAll(_)
FrameAll(bodies) == IF bodies = <<>> THEN <<>> ELSE Frame(bodies[1]) \o FrameAll(Tail(bodies))

InitCryptor ==
    /\ cr_plain \in UNION {[1..n -> PacketBodies] : n \in 1..MaxCrPackets}
    /\ cr_cipher = Cfb8Encrypt(CipherKey, CipherKey, FrameAll(cr_plain))
    /\ cr_cryptor \in {Uninitialized, CryptorNew(CipherKey)}
    /\ cr_results = <<>>
    /\ InitCodecIdle /\ InitSelIdle /\ InitProxyIdle /\ InitBridgeIdle
    /\ InitConnIdle /\ InitServerIdle /\ InitFramerIdle /\ InitListenIdle
    /\ InitConfigIdle

CryptorLive == \A i \in 1..Len(cr_results) : cr_results[i].tag # "Panic"

\* cryptor.next_packet(&mut data) on the next n bytes of the ciphertext
CallNextPacket ==
    /\ CryptorLive
    /\ \E n \in 1..MaxFragment :
         /\ n <= Len(cr_cipher)
         /\ LET r == NextPacket(cr_cryptor, SubSeq(cr_cipher, 1, n))
            IN  /\ cr_cryptor' = r.cryptor
                /\ cr_results' = Append(cr_results, r.res)
         /\ cr_cipher' = Rest(cr_cipher, n + 1)
    /\ UNCHANGED cr_plain
    /\ UNCHANGED <<codecVars, selVars, proxyVars, bridgeVars, connVars, serverVars,
                 framerVars, listenVars, configVars>>

NextCryptor == CallNextPacket

SpecCryptor == InitCryptor /\ [][NextCryptor]_vars

\* C2 (as claimed): for an initialized Cryptor and the ciphertext of one packet,
\* handed over in any non-empty fragments, every call before the last returns
\* incomplete and the last returns the packet.
C2_Fragmentation ==
    (cr_cryptor.tag = "Initialized" /\ Len(cr_plain) = 1)
    => /\ \A i \in 1..Len(cr_results) :
            (i < Len(cr_results) \/ cr_cipher # <<>>) => cr_results[i] = OkNone
       /\ (cr_cipher = <<>> /\ cr_results # <<>>)
            => cr_results[Len(cr_results)] = OkSome(cr_plain[1])

\* the plaintext bytes handed to next_packet so far (as ciphertext)
Consumed == Len(FrameAll(cr_plain)) - Len(cr_cipher)

\* the result of the last next_packet call
LastResult == cr_results[Len(cr_results)]

\* a pending buffer that holds one complete packet: a whole length prefix and the
\* number of bytes it declares
HoldsPacket(buffer) ==
    LET len == ReadVarInt(buffer)
    IN  len.tag = "Ok" /\ len.value >= 0 /\ Len(buffer) - len.consumed >= len.value

\* C24 (as claimed): a next_packet call that is handed one byte and leaves the
\* pending buffer without one complete packet (part of the length prefix included)
\* returns Ok(None), and the buffer afterwards is the old buffer followed by the
\* decrypted byte.
C24_IncompleteIsNone ==
    [][(/\ cr_cryptor.tag = "Initialized"
        /\ Len(cr_results') = Len(cr_results) + 1
        /\ Len(cr_cipher') = Len(cr_cipher) - 1)
       => LET pending == cr_cryptor.inbuffer \o <<FrameAll(cr_plain)[Consumed + 1]>>
          IN  ~HoldsPacket(pending)
              => /\ cr_results'[Len(cr_results')] = OkNone
                 /\ cr_cryptor'.inbuffer = pending]_vars

\* the packets of the stream that end with its n-th byte
EndsAt(n) == {j \in 1..Len(cr_plain) : Len(FrameAll(SubSeq(cr_plain, 1, j))) = n}

\* C25 (as claimed): when next_packet returns a packet, the length prefix and the
\* body of that packet are gone from the pending buffer and the bytes returned are
\* its body; fed one byte per call, a packet is returned with its last byte, so the
\* buffer is empty then and the next byte appended is the first of the next prefix.
C25_DrainsConsumed ==
    (/\ cr_cryptor.tag = "Initialized" /\ cr_results # <<>>
     /\ LastResult.tag = "Ok" /\ LastResult.some)
    => /\ cr_cryptor.inbuffer = <<>>
       /\ \E j \in EndsAt(Consumed) : LastResult.value = cr_plain[j]

-----------------------------------------------------------------------------
(* src/proxy.rs: the target selectors.                                      *)

PanicTarget == "panic"

\* RoundRobinSelector::new / RandomSelector::new
RoundRobinNew(targets) == [kind |-> "RoundRobin", targets |-> targets, index |-> 0]
RandomNew(targets)     == [kind |-> "Random", targets |-> targets]

\* targets[idx] on a Vec, which panics out of bounds
VecIndex(targets, idx) ==
    IF idx + 1 \in DOMAIN targets THEN targets[idx + 1] ELSE PanicTarget

\* mutant: the index is advanced without wrapping around
RoundRobinNextTargetNoWrap(s) ==
    LET target == VecIndex(s.targets, s.index)
    IN  IF target = PanicTarget THEN [sel |-> s, target |-> PanicTarget]
        ELSE [sel |-> [s EXCEPT !.index = s.index + 1], target |-> target]

\* RoundRobinSelector::next_target: the selector afterwards and the target returned
RoundRobinNextTarget(s) ==
    LET target == VecIndex(s.targets, s.index)
    IN  IF target = PanicTarget THEN [sel |-> s, target |-> PanicTarget]
        ELSE [sel |-> [s EXCEPT !.index = (s.index + 1) % Len(s.targets)], target |-> target]

\* mutant: an inclusive range
GenRangeInclusive(n) == 0..n

\* thread_rng().gen_range(0..n): the values it can return (none for an empty range,
\* on which it panics)
GenRange(n) == 0..(n - 1)

\* RandomSelector::next_target with idx drawn by gen_range
RandomNextTarget(s, idx) == [sel |-> s, target |-> VecIndex(s.targets, idx)]

MaxTargets == 3     \* targets of a selector
MaxCalls   == 5     \* next_target calls on a selector

Targets     == {"T1", "T2", "T3"}
TargetLists == UNION {[1..n -> Targets] : n \in 0..MaxTargets}

InitSelector ==
    /\ sel \in {RoundRobinNew(t) : t \in TargetLists} \cup {RandomNew(t) : t \in TargetLists}
    /\ sel_returned = <<>>
    /\ InitCodecIdle /\ InitCryptIdle /\ InitProxyIdle /\ InitBridgeIdle
    /\ InitConnIdle /\ InitServerIdle /\ InitFramerIdle /\ InitListenIdle
    /\ InitConfigIdle

SelectorLive ==
    /\ Len(sel_returned) < MaxCalls
    /\ \A i \in 1..Len(sel_returned) : sel_returned[i] # PanicTarget

CallRoundRobinNextTarget ==
    /\ SelectorLive
    /\ sel.kind = "RoundRobin"
    /\ LET r == RoundRobinNextTarget(sel)
       IN  /\ sel' = r.sel
           /\ sel_returned' = Append(sel_returned, r.target)
    /\ UNCHANGED <<codecVars, cryptVars, proxyVars, bridgeVars, connVars, serverVars,
                 framerVars, listenVars, configVars>>

CallRandomNextTarget ==
    /\ SelectorLive
    /\ sel.kind = "Random"
    /\ \/ \E idx \in GenRange(Len(sel.targets)) :
            LET r == RandomNextTarget(sel, idx)
            IN  /\ sel' = r.sel
                /\ sel_returned' = Append(sel_returned, r.target)
       \/ /\ GenRange(Len(sel.targets)) = {}            \* "cannot sample empty range"
          /\ sel' = sel
          /\ sel_returned' = Append(sel_returned, PanicTarget)
    /\ UNCHANGED <<codecVars, cryptVars, proxyVars, bridgeVars, connVars, serverVars,
                 framerVars, listenVars, configVars>>

NextSelector == CallRoundRobinNextTarget \/ CallRandomNextTarget

SpecSelector == InitSelector /\ [][NextSelector]_vars

\* C8: the k-th next_target call (from 0) on a RoundRobinSelector over n >= 1
\* targets returns targets[k mod n]; over [T1, T2, T3] five calls return
\* T1, T2, T3, T1, T2.
C8_RoundRobinCycle ==
    (sel.kind = "RoundRobin" /\ sel.targets # <<>>)
    => /\ \A k \in 0..(Len(sel_returned) - 1) :
            sel_returned[k + 1] = sel.targets[(k % Len(sel.targets)) + 1]
       /\ (sel.targets = <<"T1", "T2", "T3">> /\ Len(sel_returned) = 5)
            => sel_returned = <<"T1", "T2", "T3", "T1", "T2">>

C8_Witness ==
    /\ sel.kind = "RoundRobin" /\ sel.targets = <<"T1", "T2", "T3">>
    /\ sel_returned = <<"T1", "T2", "T3", "T1", "T2">>
    /\ sel.index = 2

\* the elements of a list
Elements(seq) == {seq[i] : i \in DOMAIN seq}

\* C9: every RandomSelector::next_target call over a non-empty list returns an
\* element of the list, after any number of calls, and leaves the selector as it
\* was.
C9_RandomContained ==
    /\ [](  (sel.kind = "Random" /\ sel.targets # <<>>)
            => \A k \in 1..Len(sel_returned) : sel_returned[k] \in Elements(sel.targets))
    /\ [][ (sel.kind = "Random" /\ sel.targets # <<>>) => sel' = sel ]_vars

C9_Witness ==
    /\ sel.kind = "Random" /\ sel.targets = <<"T1", "T2">>
    /\ Len(sel_returned) = MaxCalls
    /\ Elements(sel_returned) = {"T1", "T2"}

-----------------------------------------------------------------------------
(* src/proxy.rs: handle, up to the dispatch on next_state.  A String is a    *)
(* sequence of characters.                                                  *)

\* mutant: a comparison that ignores ASCII case
LowerChar(c) == IF c = "A" THEN "a" ELSE IF c = "B" THEN "b" ELSE c
Lower(str)   == [i \in DOMAIN str |-> LowerChar(str[i])]
StrEqIgnoreCase(a, b) == Lower(a) = Lower(b)

\* mutant: the route matches when the address starts with its `from`
StrStartsWith(a, b) == Len(a) <= Len(b) /\ SubSeq(b, 1, Len(a)) = a

\* r.from == handshake.server_address, on Strings
StrEq(a, b) == a = b

\* proxy.routes.iter().find(|r| r.from == server_address) from index i on: the
\* index of the route found, 0 for None
RECURSIVE FindRouteFrom(_, _, _)
FindRouteFrom(routes, server_address, i) ==
    IF i > Len(routes) THEN 0
    ELSE IF StrEq(routes[i].from, server_address) THEN i
    ELSE FindRouteFrom(routes, server_address, i + 1)

\* mutant: the first route takes every host
FindRouteAny(routes, server_address) == IF routes = <<>> THEN 0 ELSE 1

FindRoute(routes, server_address) == FindRouteFrom(routes, server_address, 1)

\* what handle does for a connection whose handshake was read
HandleResult(proxy, handshake) ==
    LET route == FindRoute(proxy.routes, handshake.server_address)
    IN  IF route = 0
        THEN IF proxy.fallback_method.kind = "Drop"
             THEN [route |-> 0, server_addr |-> 0, did |-> "drop", ret |-> "Ok"]
             ELSE [route |-> 0, server_addr |-> 0, did |-> "handle_status_fallback",
                   ret |-> "Ok"]
        ELSE LET server_addr == proxy.routes[route].to[1]        \* route.to.first().unwrap()
             IN  IF handshake.next_state = 1
                 THEN [route |-> route, server_addr |-> server_addr,
                       did |-> "handle_upstream_status", ret |-> "Ok"]
                 ELSE IF handshake.next_state = 2
                 THEN [route |-> route, server_addr |-> server_addr,
                       did |-> "handle_upstream_login", ret |-> "Ok"]
                 ELSE [route |-> route, server_addr |-> server_addr,
                       did |-> "none", ret |-> "illegal next state"]

MaxRoutes == 3     \* routes of a proxy

\* virtual hosts that differ in case only, or are a prefix or a suffix of another
Hosts == {<<"a">>, <<"A">>, <<"a", "b">>, <<"b", "a">>, <<"b">>}

\* route tables: the i-th route goes to its own target, so equal `from`s stay apart
RouteTables ==
    UNION {{[i \in 1..n |-> [from |-> f[i], to |-> <<i>>]] : f \in [1..n -> Hosts]}
           : n \in 0..MaxRoutes}

FallbackMethods == {[kind |-> "Drop"], [kind |-> "Status", status |-> "Unrecognised server"]}

InitProxy ==
    /\ px_proxy \in [routes : RouteTables, fallback_method : FallbackMethods]
    /\ px_conn \in [handshake_ok : BOOLEAN, server_address : Hosts, next_state : 0..3]
    /\ px_out = Idle
    /\ InitCodecIdle /\ InitCryptIdle /\ InitSelIdle /\ InitBridgeIdle
    /\ InitConnIdle /\ InitServerIdle /\ InitFramerIdle /\ InitListenIdle
    /\ InitConfigIdle

\* handle(proxy, client_stream, client_addr)
Handle ==
    /\ px_out = Idle
    /\ px_out' = IF px_conn.handshake_ok
                 THEN HandleResult(px_proxy, px_conn)
                 ELSE [route |-> 0, server_addr |-> 0, did |-> "none",
                       ret |-> "handshake error"]                \* handshake(..).await?
    /\ UNCHANGED <<px_proxy, px_conn>>
    /\ UNCHANGED <<codecVars, cryptVars, selVars, bridgeVars, connVars, serverVars,
                 framerVars, listenVars, configVars>>

NextProxy == Handle

SpecProxy == InitProxy /\ [][NextProxy]_vars

\* the routes whose `from` is the address the handshake asked for
Matching == {i \in 1..Len(px_proxy.routes) : px_proxy.routes[i].from = px_conn.server_address}

\* C10: handle resolves the first route, in configuration order, whose `from` is
\* exactly the handshake's server_address, and no route when none is equal: routes
\* that differ in case or are a prefix or a suffix of the address do not match.
C10_RouteResolution ==
    (px_out # Idle /\ px_conn.handshake_ok)
    => IF Matching = {}
       THEN px_out.route = 0 /\ px_out.did \in {"drop", "handle_status_fallback"}
       ELSE /\ px_out.route \in Matching
            /\ \A i \in Matching : px_out.route <= i
            /\ px_out.server_addr = px_proxy.routes[px_out.route].to[1]

C10_Witness ==
    /\ px_out # Idle /\ px_conn.handshake_ok
    /\ px_conn.server_address = <<"a">>
    /\ Len(px_proxy.routes) = 3
    /\ px_proxy.routes[1].from = <<"A">>
    /\ px_proxy.routes[2].from = <<"a">>
    /\ px_proxy.routes[3].from = <<"a">>
    /\ px_out.route = 2 /\ px_out.server_addr = 2

-----------------------------------------------------------------------------
(* src/bridge/mod.rs, src/bridge/upstream.rs, src/bridge/downstream.rs:      *)
(* bridge::create and its two forwarding tasks.  handle_upstream owns        *)
(* client_rx and server_tx, handle_downstream owns server_rx and client_tx;  *)
(* a half is dropped when the task that owns it ends.                        *)

PlayBufferLen == 1024      \* let mut data = [0u8; 1024]
UuidLen       == 16        \* let mut buf = [0u8; 16]

\* BridgeState::from(state) with the two tasks spawned and create at try_join!
BridgeCreate(state) ==
    [state      |-> state,                   \* server.protocol_state = client.protocol_state
     compressed |-> FALSE,
     cryptor    |-> Uninitialized,
     up         |-> "running",               \* handle_upstream: running, returned, panicked, hung
     up_pc      |-> "loop",
     down       |-> "running",               \* handle_downstream
     c2p        |-> <<>>,                    \* bytes the client sent, not yet read by client_rx
     s2p        |-> <<>>,                    \* bytes the server sent, not yet read by server_rx
     client_eof |-> FALSE,                   \* the client has closed its connection
     server_eof |-> FALSE,
     sent       |-> 0,                       \* writes the two peers have made
     from_client |-> <<>>,                   \* every byte the client has sent
     from_server |-> <<>>,                   \* every byte the server has sent
     logins     |-> 0,                       \* times handle_upstream_login returned Ok(())
     to_server  |-> <<>>,                    \* bytes written to server_tx
     to_client  |-> <<>>,                    \* bytes written to client_tx
     join_up    |-> "pending",               \* what try_join! has got from each JoinHandle
     join_down  |-> "pending",
     create     |-> "joining"]               \* joining, Ok, Err

\* a half is open while the task that owns it has not ended: client_rx and
\* server_tx belong to handle_upstream, server_rx and client_tx to handle_downstream
UpstreamHalvesOpen   == br.up \in {"running", "hung"}
DownstreamHalvesOpen == br.down \in {"running", "hung"}

\* a read on a socket waits for more bytes unless the peer has closed
Blocked(res, eof) == res.tag = "Err" /\ res.error = UnexpectedEof /\ ~eof

\* how a task goes on after a call that returned res: "?" returns the error, a panic
\* unwinds the task, a call that never returns keeps it busy for ever
After(res) ==
    CASE res.tag = "Ok"    -> "running"
      [] res.tag = "Err"   -> "returned"
      [] res.tag = "Panic" -> "panicked"
      [] res.tag = "Hang"  -> "hung"

\* the bytes a read took off the stream
Taken(bytes, res) == IF res.tag \in {"Ok", "Err"} THEN Rest(bytes, res.consumed + 1) ELSE bytes

\* write_all / write_var_int on a socket whose peer has closed fails or is lost
WriteOutcomes(peer_closed) == IF peer_closed THEN {"Ok", "Err"} ELSE {"Ok"}

\* a continuation byte of UTF-8
Utf8Cont(b, i) == i <= Len(b) /\ b[i] \in 128..191

\* String::from_utf8(buf).is_ok(), from byte i on
RECURSIVE Utf8ValidFrom(_, _)
Utf8ValidFrom(b, i) ==
    IF i > Len(b) THEN TRUE
    ELSE LET c == b[i]
         IN  IF c < 128 THEN Utf8ValidFrom(b, i + 1)
             ELSE IF c \in 194..223 THEN Utf8Cont(b, i + 1) /\ Utf8ValidFrom(b, i + 2)
             ELSE IF c \in 224..239
             THEN /\ Utf8Cont(b, i + 1) /\ Utf8Cont(b, i + 2)
                  /\ (c = 224 => b[i + 1] >= 160) /\ (c = 237 => b[i + 1] <= 159)
                  /\ Utf8ValidFrom(b, i + 3)
             ELSE IF c \in 240..244
             THEN /\ Utf8Cont(b, i + 1) /\ Utf8Cont(b, i + 2) /\ Utf8Cont(b, i + 3)
                  /\ (c = 240 => b[i + 1] >= 144) /\ (c = 244 => b[i + 1] <= 143)
                  /\ Utf8ValidFrom(b, i + 4)
             ELSE FALSE

InvalidUtf8 == "failed to decode string bytes"

\* read_string on a stream or on the cursor over a packet's data
ReadString(data) ==
    LET len == ReadVarInt(data)
    IN  IF len.tag = "Err" THEN len
        ELSE IF len.value < 0 THEN Panic("capacity")                   \* vec![0u8; len]
        ELSE IF Len(data) - len.consumed < len.value THEN Err(UnexpectedEof, Len(data))
        ELSE LET buf == SubSeq(data, len.consumed + 1, len.consumed + len.value)
             IN  IF Utf8ValidFrom(buf, 1) THEN Ok(buf, len.consumed + len.value)
                 ELSE Err(InvalidUtf8, len.consumed + len.value)      \* String::from_utf8

\* the parsing of the login start packet: read_string, then read_uuid
ParseLoginStart(data) ==
    LET username == ReadString(data)
    IN  IF username.tag # "Ok" THEN username
        ELSE IF Len(data) - username.consumed < UuidLen THEN Err(UnexpectedEof, Len(data))
        ELSE Ok(username.value, username.consumed + UuidLen)

\* the parsing of the encryption response: shared secret, then verify token, each a
\* read_var_int, a vec![0u8; len] and a read_exact, as in read_string
ParseEncryptionResponse(packet) ==
    IF packet.id # 1 THEN Err("Expected encryption response packet", 0)
    ELSE LET secret == ReadString(packet.data)
         IN  IF secret.tag # "Ok" THEN secret
             ELSE ReadString(Rest(packet.data, secret.consumed + 1))

MaxSends == 2      \* writes the two peers make on their connections

StatusRequest      == <<1, 0>>
LoginStart         == <<18, 0, 0>> \o Repeat(0, UuidLen)
EncryptionResponse == <<3, 1, 0, 0>>
StatusResponse     == <<3, 0, 1, 65>>
ClientChunks == {StatusRequest, LoginStart, EncryptionResponse, <<0>>, Repeat(0, PlayBufferLen)}
ServerChunks == {StatusResponse, <<0>>}

ProtocolStates == {"Handshaking", "Status", "Login", "Play"}

InitBridge ==
    /\ br \in {BridgeCreate(state) : state \in ProtocolStates}
    /\ InitCodecIdle /\ InitCryptIdle /\ InitSelIdle /\ InitProxyIdle
    /\ InitConnIdle /\ InitServerIdle /\ InitFramerIdle /\ InitListenIdle
    /\ InitConfigIdle

Others == <<codecVars, cryptVars, selVars, proxyVars, connVars, serverVars,
                 framerVars, listenVars, configVars>>

ClientSend ==
    /\ ~br.client_eof /\ br.sent < MaxSends
    /\ \E chunk \in ClientChunks :
         br' = [br EXCEPT !.c2p = @ \o chunk, !.from_client = @ \o chunk, !.sent = @ + 1]
    /\ UNCHANGED Others

ClientClose ==
    /\ ~br.client_eof
    /\ br' = [br EXCEPT !.client_eof = TRUE]
    /\ UNCHANGED Others

ServerSend ==
    /\ ~br.server_eof /\ br.sent < MaxSends
    /\ \E chunk \in ServerChunks :
         br' = [br EXCEPT !.s2p = @ \o chunk, !.from_server = @ \o chunk, !.sent = @ + 1]
    /\ UNCHANGED Others

ServerClose ==
    /\ ~br.server_eof
    /\ br' = [br EXCEPT !.server_eof = TRUE]
    /\ UNCHANGED Others

\* ProtocolState::Handshaking => unreachable!(..)
UpstreamHandshaking ==
    /\ br.up = "running" /\ br.state = "Handshaking"
    /\ br' = [br EXCEPT !.up = "panicked"]
    /\ UNCHANGED Others

\* mutant: a pass of the loop in Login leaves the connection in Handshaking
ProtocolStateReset(state) == IF state = "Login" THEN "Handshaking" ELSE state

\* mutant: a pass of the loop in Status starts the connection over
ProtocolStateRestart(state) == IF state = "Status" THEN "Handshaking" ELSE state

\* protocol_state as a pass of a forwarding loop leaves it: the loops read it at the
\* top of every pass and no handler assigns it
ProtocolStateAfter(state) == state

\* one read_uncompressed_packet / write_uncompressed_packet pair from `from` to `to`
Forward(task, from, eof, to, peer_closed) ==
    LET packet == ReadUncompressedPacket(br[from])
    IN  /\ ~Blocked(packet, br[eof])
        /\ IF packet.tag # "Ok"
           THEN br' = [br EXCEPT !.state = ProtocolStateAfter(@),
                                 ![task] = After(packet), ![from] = Taken(@, packet)]
           ELSE LET out == WriteUncompressedPacket(packet.value)
                IN  \E w \in WriteOutcomes(br[peer_closed]) :
                      br' = [br EXCEPT !.state = ProtocolStateAfter(@),
                                       ![from] = Taken(@, packet),
                                       ![to]   = IF out.tag = "Ok" /\ ~br[peer_closed]
                                                 THEN @ \o out.bytes ELSE @,
                                       ![task] = IF out.tag # "Ok" THEN After(out)
                                                 ELSE IF w = "Err" THEN "returned"
                                                 ELSE "running"]

\* handle_upstream_status
UpstreamStatus ==
    /\ br.up = "running" /\ br.state = "Status"
    /\ Forward("up", "c2p", "client_eof", "to_server", "server_eof")
    /\ UNCHANGED Others

\* handle_upstream_login, to the second read_uncompressed_packet
UpstreamLoginStart ==
    /\ br.up = "running" /\ br.state = "Login" /\ br.up_pc = "loop"
    /\ LET login_start == ReadUncompressedPacket(br.c2p)
       IN  /\ ~Blocked(login_start, br.client_eof)
           /\ IF login_start.tag # "Ok"
              THEN br' = [br EXCEPT !.state = ProtocolStateAfter(@),
                                    !.up = After(login_start), !.c2p = Taken(@, login_start)]
              ELSE LET out    == WriteUncompressedPacket(login_start.value)
                       parsed == ParseLoginStart(login_start.value.data)
                   IN  \E w \in WriteOutcomes(br.server_eof) :
                         br' = [br EXCEPT
                                 !.c2p = Taken(@, login_start),
                                 !.to_server = IF out.tag = "Ok" /\ ~br.server_eof
                                               THEN @ \o out.bytes ELSE @,
                                 !.up = IF out.tag # "Ok" THEN After(out)
                                        ELSE IF w = "Err" THEN "returned"
                                        ELSE After(parsed),
                                 !.up_pc = IF out.tag = "Ok" /\ w = "Ok" /\ parsed.tag = "Ok"
                                           THEN "encryption_response" ELSE @]
    /\ UNCHANGED Others

\* handle_upstream_login, from the second read_uncompressed_packet on; the request to
\* the session server fails or answers, and handle_upstream_login then returns Ok(())
UpstreamLoginEncryption ==
    /\ br.up = "running" /\ br.state = "Login" /\ br.up_pc = "encryption_response"
    /\ LET response == ReadUncompressedPacket(br.c2p)
       IN  /\ ~Blocked(response, br.client_eof)
           /\ IF response.tag # "Ok"
              THEN br' = [br EXCEPT !.state = ProtocolStateAfter(@),
                                    !.up = After(response), !.c2p = Taken(@, response)]
              ELSE LET parsed == ParseEncryptionResponse(response.value)
                   IN  \E auth \in {"Ok", "Err"} :
                         br' = [br EXCEPT
                                 !.c2p = Taken(@, response),
                                 !.up = IF parsed.tag # "Ok" THEN After(parsed)
                                        ELSE IF auth = "Err" THEN "returned"
                                        ELSE "running",
                                 !.up_pc = IF parsed.tag = "Ok" /\ auth = "Ok" THEN "loop" ELSE @,
                                 !.logins = IF parsed.tag = "Ok" /\ auth = "Ok"
                                            THEN @ + 1 ELSE @]
    /\ UNCHANGED Others

\* handle_upstream_play
UpstreamPlay ==
    /\ br.up = "running" /\ br.state = "Play"
    /\ \/ /\ Len(br.c2p) >= PlayBufferLen                          \* read_exact(&mut data)
          /\ LET r == NextPacket(br.cryptor, SubSeq(br.c2p, 1, PlayBufferLen))
             IN  \E w \in WriteOutcomes(br.server_eof) :
                   br' = [br EXCEPT
                           !.c2p = Rest(@, PlayBufferLen + 1),
                           !.cryptor = r.cryptor,
                           !.to_server = IF r.res.tag = "Ok" /\ r.res.some /\ ~br.server_eof
                                         THEN @ \o r.res.value ELSE @,
                           !.up = IF r.res.tag # "Ok" THEN After(r.res)
                                  ELSE IF r.res.some /\ w = "Err" THEN "returned"
                                  ELSE "running"]
       \/ /\ Len(br.c2p) < PlayBufferLen /\ br.client_eof
          /\ br' = [br EXCEPT !.state = ProtocolStateAfter(@), !.up = "returned", !.c2p = <<>>]
    /\ UNCHANGED Others

\* ProtocolState::Handshaking => unreachable!(..)
DownstreamHandshaking ==
    /\ br.down = "running" /\ br.state = "Handshaking"
    /\ br' = [br EXCEPT !.down = "panicked"]
    /\ UNCHANGED Others

\* handle_downstream_status
DownstreamStatus ==
    /\ br.down = "running" /\ br.state = "Status"
    /\ Forward("down", "s2p", "server_eof", "to_client", "client_eof")
    /\ UNCHANGED Others

\* handle_downstream_login: todo!()
DownstreamLogin ==
    /\ br.down = "running" /\ br.state = "Login"
    /\ br' = [br EXCEPT !.down = "panicked"]
    /\ UNCHANGED Others

\* handle_downstream_play: reads one packet, then todo!(..)
DownstreamPlay ==
    /\ br.down = "running" /\ br.state = "Play"
    /\ LET packet == ReadUncompressedPacket(br.s2p)
       IN  /\ ~Blocked(packet, br.server_eof)
           /\ br' = [br EXCEPT !.state = ProtocolStateAfter(@), !.s2p = Taken(@, packet),
                               !.down = IF packet.tag = "Ok" THEN "panicked" ELSE After(packet)]
    /\ UNCHANGED Others

\* what a JoinHandle gives once its task has ended: Ok(the task's Result) when it
\* returned, Err(JoinError) when it panicked
JoinOutput(task, got) ==
    IF got # "pending" THEN got
    ELSE IF task = "returned" THEN "Ok"
    ELSE IF task = "panicked" THEN "JoinError"
    ELSE "pending"

\* try_join!(upstream, downstream): Err as soon as one handle gives Err(JoinError),
\* Ok once both have given Ok, pending until then
TryJoin(up, down) ==
    IF "JoinError" \in {up, down} THEN "Err"
    ELSE IF up = "Ok" /\ down = "Ok" THEN "Ok"
    ELSE "joining"

\* create is woken by a task that ended and polls try_join!
JoinPoll ==
    /\ br.create = "joining"
    /\ LET up   == JoinOutput(br.up, br.join_up)
           down == JoinOutput(br.down, br.join_down)
       IN  /\ <<up, down>> # <<br.join_up, br.join_down>>
           /\ br' = [br EXCEPT !.join_up = up, !.join_down = down, !.create = TryJoin(up, down)]
    /\ UNCHANGED Others

NextBridge ==
    \/ ClientSend \/ ClientClose \/ ServerSend \/ ServerClose
    \/ UpstreamHandshaking \/ UpstreamStatus \/ UpstreamLoginStart
    \/ UpstreamLoginEncryption \/ UpstreamPlay
    \/ DownstreamHandshaking \/ DownstreamStatus \/ DownstreamLogin \/ DownstreamPlay
    \/ JoinPoll

SpecBridge == InitBridge /\ [][NextBridge]_vars

\* C1 (as claimed): once create has seen one forwarding task return, by EOF or by
\* error, the bridge is over: create has returned, the other task runs no more and
\* the four socket halves are closed.
C1_TerminatesOnFirstReturn ==
    (br.join_up = "Ok" \/ br.join_down = "Ok")
    => /\ br.create # "joining"
       /\ br.up # "running" /\ br.down # "running"
       /\ ~UpstreamHalvesOpen /\ ~DownstreamHalvesOpen

\* the edges of the protocol state machine
AllowedEdges == {<<"Handshaking", "Status">>, <<"Handshaking", "Login">>, <<"Login", "Play">>}

\* C15: no step of a bridge changes the protocol state other than along Handshaking
\* to Status, Handshaking to Login and Login to Play: Handshaking is never
\* re-entered, Status and Play are never left.
C15_StateTransitions ==
    [][br'.state = br.state \/ <<br.state, br'.state>> \in AllowedEdges]_vars

\* the loops have run in Status and in Login (a login exchange went through)
C15_Witness ==
    \/ br.state = "Login" /\ br.logins > 0
    \/ br.state = "Status" /\ br.to_server # <<>> /\ br.to_client # <<>>

\* C16 (as claimed): once the login exchange of a bridge in Login has completed,
\* the bridge is in Play.
C16_LoginToPlay == br.logins > 0 => br.state = "Play"

\* C17 (as claimed): in Play with the Cryptor Uninitialized the upstream loop does
\* not fail on the Cryptor: it has passed on, unchanged, every byte it has read.
C17_PlayPassThrough ==
    (br.state = "Play" /\ br.cryptor = Uninitialized)
    => /\ br.up # "panicked"
       /\ ~br.server_eof => br.from_client = br.to_server \o br.c2p

\* C18 (as claimed): in each direction the bytes written to the destination are a
\* prefix of the bytes received from the source.
C18_FifoRelay ==
    /\ Len(br.to_server) <= Len(br.from_client)
    /\ br.to_server = SubSeq(br.from_client, 1, Len(br.to_server))
    /\ Len(br.to_client) <= Len(br.from_server)
    /\ br.to_client = SubSeq(br.from_server, 1, Len(br.to_client))

C37_PlayForwardsEveryByte ==
    (br.state = "Play" /\ ~br.server_eof)
    => /\ (br.up = "running" /\ br.c2p # <<>>) => ENABLED UpstreamPlay
       /\ br.up # "running" => br.to_server = br.from_client

-----------------------------------------------------------------------------
(* src/proxy.rs: handle on the bytes of one connection, from the handshake   *)
(* to the handler it ends in.  A String is its UTF-8 bytes.  The packets     *)
(* written to a peer are kept as packets: an id and either a JSON document   *)
(* (write_string of serde_json::to_string) or raw bytes.                     *)

\* `x as u8`, `x as u16` on an i32
AsU8(v)  == LowBitsValue(Bits32(v), 8)
AsU16(v) == LowBitsValue(Bits32(v), 16)

\* AsyncReadExt::read_u16 / read_u64 on a cursor: big-endian, fixed width
ReadFixed(data, width) ==
    IF Len(data) < width THEN Err(UnexpectedEof, Len(data))
    ELSE Ok(SubSeq(data, 1, width), width)

\* write_string: the varint length, then the bytes
WriteString(str) == WriteVarInt(Len(str)) \o str

\* read_packet: a varint length L > 0, a varint id, then L - varint_len(id) bytes
ReadPacket(bytes) ==
    LET length == ReadVarInt(bytes)
    IN  IF length.tag = "Err" THEN length
        ELSE IF length.value <= 0 THEN Err(EmptyPacket, length.consumed)
        ELSE LET id == ReadVarInt(Rest(bytes, length.consumed + 1))
                 at == length.consumed + id.consumed
                 data_length == length.value - id.consumed
             IN  IF id.tag = "Err" THEN Err(id.error, at)
                 ELSE IF data_length < 0 THEN Err("InvalidLength", at)
                 ELSE IF Len(bytes) - at < data_length THEN Err(UnexpectedEof, Len(bytes))
                 ELSE Ok([id |-> id.value, data |-> SubSeq(bytes, at + 1, at + data_length)],
                         at + data_length)

\* write_packet(id, &buf): the packet the peer receives
WritePacket(id, payload) == [id |-> id, payload |-> payload]

\* serde_json::to_string of a TextComponent / ChatComponent::from_text: the
\* component itself is the document
ComponentJson(text) == [text |-> text]

\* mutant: the status is sent as the bare component, without the response around it
StatusResponseJsonBare(message) == ComponentJson(message)

\* serde_json::to_string(&StatusResponse::message(message))
StatusResponseJson(message) ==
    [version |-> [name |-> "Unknown", protocol |-> 0],
     players |-> [max |-> 0, online |-> 0, sample |-> <<>>],
     description |-> ComponentJson(message),
     favicon |-> "", previewsChat |-> FALSE, enforcesSecureChat |-> FALSE]

ConnectFailed == "Failed to connect to upstream server"

\* handshake, after read_packet: the four fields off the cursor over packet.data
ParseHandshake(packet) ==
    LET protocol_version == ReadVarInt(packet.data)
    IN  IF protocol_version.tag # "Ok" THEN protocol_version
        ELSE LET d1 == Rest(packet.data, protocol_version.consumed + 1)
                 server_address == ReadString(d1)
             IN  IF server_address.tag # "Ok" THEN server_address
                 ELSE LET d2 == Rest(d1, server_address.consumed + 1)
                          server_port == ReadFixed(d2, 2)
                      IN  IF server_port.tag # "Ok" THEN server_port
                          ELSE LET next_state == ReadVarInt(Rest(d2, 3))
                               IN  IF next_state.tag # "Ok" THEN next_state
                                   ELSE Ok([protocol_version |-> AsU16(protocol_version.value),
                                            server_address |-> server_address.value,
                                            server_port |-> server_port.value,
                                            next_state |-> AsU8(next_state.value)], 0)

MaxConnSends == 2      \* packets the client sends after its first

HostA == <<97>>
HostB == <<98>>
ProtocolVersion == 761
ServerPort == <<99, 221>>      \* 25565

\* the first packet of a client: a handshake with the given id and next_state
FirstPacket(id, server_address, next_state) ==
    LET data == WriteVarInt(ProtocolVersion) \o WriteString(server_address)
                \o ServerPort \o WriteVarInt(next_state)
    IN  WriteVarInt(Len(data) + Len(WriteVarInt(id))) \o WriteVarInt(id) \o data

FirstIds        == {0, 5}
FirstNextStates == {0, 1, 2, 3, 257, 258, -1}
FirstInputs ==
    [kind : {"handshake"}, id : FirstIds, server_address : {HostA, HostB},
     next_state : FirstNextStates]
      \cup [kind : {"empty", "short"}, id : {0}, server_address : {HostA}, next_state : {1}]

FirstBytes(in) ==
    CASE in.kind = "handshake" -> FirstPacket(in.id, in.server_address, in.next_state)
      [] in.kind = "empty"     -> <<0>>
      [] in.kind = "short"     -> <<2, 0, 1>>

PingRequest == <<9, 1>> \o Repeat(7, 8)
ConnChunks  == {StatusRequest, PingRequest, LoginStart, <<1, 5>>}

ConnProxies ==
    [routes : {<<>>, <<[from |-> HostA, to |-> <<1>>]>>}, fallback_method : FallbackMethods]

InitHandle ==
    /\ \E proxy \in ConnProxies, in \in FirstInputs, connect_ok \in BOOLEAN,
          s2p \in {<<>>, StatusResponse} :
         cn = [proxy |-> proxy, input |-> in, connect_ok |-> connect_ok,
               c2p |-> FirstBytes(in), client_eof |-> FALSE, sent |-> 0,
               s2p |-> s2p,
               pc |-> "handshake", state |-> "Handshaking", route |-> 0,
               request |-> 0, upstream_connected |-> FALSE,
               to_client |-> <<>>, to_server |-> <<>>, ret |-> "running"]
    /\ InitCodecIdle /\ InitCryptIdle /\ InitSelIdle /\ InitProxyIdle /\ InitBridgeIdle
    /\ InitServerIdle /\ InitFramerIdle /\ InitListenIdle
    /\ InitConfigIdle

NotConn == <<codecVars, cryptVars, selVars, proxyVars, bridgeVars, serverVars,
            framerVars, listenVars, configVars>>

\* handle returns: the task ends and client_stream is dropped
Return(c, ret) == [c EXCEPT !.pc = "done", !.ret = ret]

\* the client sends its next packet once the proxy has taken the handshake (handle
\* reads one packet at a time, in order: bytes that arrive earlier wait in the socket)
ConnClientSend ==
    /\ cn.ret = "running" /\ cn.pc # "handshake" /\ ~cn.client_eof /\ cn.sent < MaxConnSends
    /\ \E chunk \in ConnChunks :
         cn' = [cn EXCEPT !.c2p = @ \o chunk, !.sent = @ + 1]
    /\ UNCHANGED NotConn

ConnClientClose ==
    /\ cn.ret = "running" /\ ~cn.client_eof
    /\ cn' = [cn EXCEPT !.client_eof = TRUE]
    /\ UNCHANGED NotConn

\* client_stream.write_packet(id, &buf).await?, then `and_then`: the packet reaches
\* the client and handle goes on, or the write fails and handle returns the error
WriteToClient(c, packet, w, and_then) ==
    IF w = "Err" THEN Return(c, "Err")
    ELSE [and_then EXCEPT !.to_client = IF c.client_eof THEN @ ELSE Append(@, packet)]

\* handle_status_fallback
HandleStatusFallback(c, status, w) ==
    WriteToClient(c, WritePacket(0, [string |-> ComponentJson(status)]), w, Return(c, "Ok"))

\* handle_upstream_status and handle_upstream_login, to their first read_packet
Dispatch(c, handshake, r) ==
    IF r.did = "handle_upstream_status"
    THEN IF c.connect_ok
         THEN [c EXCEPT !.state = "Status", !.route = r.route, !.pc = "status_relay",
                        !.upstream_connected = TRUE,
                        !.to_server = Append(@, WritePacket(0,
                            [handshake |-> [protocol_version |-> handshake.protocol_version,
                                            server_address |-> r.server_addr,
                                            next_state |-> 1]]))]
         ELSE [c EXCEPT !.state = "Status", !.route = r.route, !.pc = "status_unreachable"]
    ELSE IF c.connect_ok
         THEN [c EXCEPT !.state = "Login", !.route = r.route, !.pc = "bridged",
                        !.upstream_connected = TRUE]                 \* bridge::create
         ELSE [c EXCEPT !.state = "Login", !.route = r.route, !.pc = "login_unreachable"]

\* handle, from its start to the first read_packet of the handler it ends in
HandleHandshake ==
    /\ cn.ret = "running" /\ cn.pc = "handshake"
    /\ LET packet == ReadPacket(cn.c2p)
       IN  /\ ~Blocked(packet, cn.client_eof)
           /\ IF packet.tag # "Ok" THEN cn' = Return([cn EXCEPT !.c2p = Taken(@, packet)], "Err")
              ELSE LET handshake == ParseHandshake(packet.value)
                       c == [cn EXCEPT !.c2p = Taken(@, packet)]
                   IN  IF handshake.tag = "Panic" THEN cn' = Return(c, "panicked")
                       ELSE IF handshake.tag # "Ok" THEN cn' = Return(c, "Err")
                       ELSE LET r == HandleResult(c.proxy, handshake.value)
                            IN  CASE r.did = "drop" -> cn' = Return(c, "Ok")
                                  [] r.did = "handle_status_fallback" ->
                                       \E w \in WriteOutcomes(c.client_eof) :
                                         cn' = HandleStatusFallback(
                                                 c, c.proxy.fallback_method.status, w)
                                  [] r.did = "none" -> cn' = Return(c, "Err")
                                  [] OTHER -> cn' = Dispatch(c, handshake.value, r)
    /\ UNCHANGED NotConn

\* handle_upstream_status, the loop entered when the connect failed: one iteration
StatusUnreachable ==
    /\ cn.ret = "running" /\ cn.pc = "status_unreachable"
    /\ LET packet == ReadPacket(cn.c2p)
           c == [cn EXCEPT !.c2p = Taken(@, packet),
                           !.request = IF packet.tag = "Ok" THEN packet.value.id ELSE @]
       IN  /\ ~Blocked(packet, cn.client_eof)
           /\ IF packet.tag # "Ok" THEN cn' = Return(c, "Err")
              ELSE IF packet.value.id = 0
              THEN \E w \in WriteOutcomes(c.client_eof) :
                     cn' = WriteToClient(c, WritePacket(0,
                               [string |-> StatusResponseJson(ConnectFailed)]), w,
                               Return(c, "Ok"))
              ELSE IF packet.value.id = 1
              THEN LET nonce == ReadFixed(packet.value.data, 8)
                   IN  IF nonce.tag # "Ok" THEN cn' = Return(c, "Err")
                       ELSE \E w \in WriteOutcomes(c.client_eof) :
                              cn' = WriteToClient(c, WritePacket(1, [bytes |-> nonce.value]),
                                                  w, c)
              ELSE cn' = Return(c, "Err")                           \* illegal packet id
    /\ UNCHANGED NotConn

\* handle_upstream_login when the connect failed
LoginUnreachable ==
    /\ cn.ret = "running" /\ cn.pc = "login_unreachable"
    /\ LET packet == ReadPacket(cn.c2p)
           c == [cn EXCEPT !.c2p = Taken(@, packet)]
       IN  /\ ~Blocked(packet, cn.client_eof)
           /\ IF packet.tag # "Ok" THEN cn' = Return(c, "Err")
              ELSE \E w \in WriteOutcomes(c.client_eof) :
                     cn' = WriteToClient(c, WritePacket(0,
                               [string |-> ComponentJson(ConnectFailed)]), w, Return(c, "Ok"))
    /\ UNCHANGED NotConn

\* handle_upstream_status, the relay loop: the client's packet goes to the server
StatusRelayRequest ==
    /\ cn.ret = "running" /\ cn.pc = "status_relay"
    /\ LET packet == ReadPacket(cn.c2p)
           c == [cn EXCEPT !.c2p = Taken(@, packet)]
       IN  /\ ~Blocked(packet, cn.client_eof)
           /\ IF packet.tag # "Ok" THEN cn' = Return(c, "Err")
              ELSE cn' = [c EXCEPT !.pc = "status_relay_response",
                                   !.request = packet.value.id,
                                   !.to_server = Append(@, WritePacket(packet.value.id,
                                                     [bytes |-> packet.value.data]))]
    /\ UNCHANGED NotConn

\* handle_upstream_status, the relay loop: the server's answer goes to the client
\* under the id of the request (the server has sent s2p and closed)
StatusRelayResponse ==
    /\ cn.ret = "running" /\ cn.pc = "status_relay_response"
    /\ LET response == ReadPacket(cn.s2p)
           c == [cn EXCEPT !.s2p = Taken(@, response)]
       IN  IF response.tag # "Ok" THEN cn' = Return(c, "Err")
           ELSE \E w \in WriteOutcomes(c.client_eof) :
                  cn' = WriteToClient(c, WritePacket(c.request, [bytes |-> response.value.data]),
                                      w, [c EXCEPT !.pc = "status_relay"])
    /\ UNCHANGED NotConn

NextHandle ==
    \/ ConnClientSend \/ ConnClientClose
    \/ HandleHandshake \/ StatusUnreachable \/ LoginUnreachable
    \/ StatusRelayRequest \/ StatusRelayResponse

SpecHandle == InitHandle /\ [][NextHandle]_vars

\* the handshake of the connection is a well-formed handshake packet
WellFormed == cn.input.kind = "handshake"
Routed     == FindRoute(cn.proxy.routes, cn.input.server_address) # 0

\* C11 (as claimed): a handshake (id 0, next_state 1 or 2) for a host no route has,
\* under the fallback Status(message): the client receives one packet, a status
\* response whose description is the message, and the connection is over with no
\* upstream connection and not in Play.
C11_FallbackStatusResponse ==
    (/\ cn.pc # "handshake" /\ ~cn.client_eof
     /\ WellFormed /\ cn.input.id = 0 /\ cn.input.next_state \in {1, 2}
     /\ ~Routed /\ cn.proxy.fallback_method.kind = "Status")
    => /\ cn.pc = "done" /\ ~cn.upstream_connected /\ cn.state # "Play"
       /\ Len(cn.to_client) = 1
       /\ cn.to_client[1].id = 0
       /\ "string" \in DOMAIN cn.to_client[1].payload
       /\ "description" \in DOMAIN cn.to_client[1].payload.string
       /\ cn.to_client[1].payload.string.description.text = cn.proxy.fallback_method.status

\* C12: a handshake for a routed host whose upstream connect fails.  Login: once
\* the proxy has taken the client's next packet, the client has received exactly a
\* disconnect packet (id 0) with the reason "Failed to connect to upstream server"
\* and handle has returned Ok.  Status: every ping was echoed and the status request
\* was answered by a status response (id 0) carrying that text as its description,
\* after which handle returned Ok; handle ends in an error only on a packet that is
\* neither.  No upstream connection exists and the handler never panics.
C12_UnreachableUpstream ==
    (/\ WellFormed /\ cn.input.id = 0 /\ Routed /\ ~cn.connect_ok
     /\ cn.pc = "done" /\ ~cn.client_eof)
    => /\ ~cn.upstream_connected /\ cn.ret \in {"Ok", "Err"}
       /\ cn.input.next_state = 2 =>
            /\ cn.ret = "Ok"
            /\ cn.to_client = <<WritePacket(0, [string |-> ComponentJson(ConnectFailed)])>>
       /\ cn.input.next_state = 1 =>
            /\ \A i \in 1..(Len(cn.to_client) - 1) : cn.to_client[i].id = 1
            /\ cn.ret = "Err" => cn.request \notin {0, 1}
                                 /\ \A i \in DOMAIN cn.to_client : cn.to_client[i].id = 1
            /\ cn.ret = "Ok" =>
                 /\ cn.to_client # <<>>
                 /\ LET last == cn.to_client[Len(cn.to_client)]
                    IN  /\ last.id = 0
                        /\ "description" \in DOMAIN last.payload.string
                        /\ last.payload.string.description.text = ConnectFailed

\* a ping was echoed, then the status request was answered; and a login was refused
C12_Witness ==
    /\ WellFormed /\ cn.input.id = 0 /\ Routed /\ ~cn.connect_ok
    /\ cn.pc = "done" /\ ~cn.client_eof /\ cn.ret = "Ok"
    /\ cn.input.next_state = 1
    /\ Len(cn.to_client) = 2
    /\ cn.to_client[1] = WritePacket(1, [bytes |-> Repeat(7, 8)])
    /\ cn.to_client[2].id = 0

\* C13 (as claimed): a handshake whose next_state is not 1 or 2 ends the connection
\* in Handshaking: it is never handled as a Status or a Login connection and no
\* upstream connection is made for it.
C13_IllegalNextState ==
    (WellFormed /\ cn.input.next_state \notin {1, 2} /\ cn.pc # "handshake")
    => /\ cn.pc = "done" /\ cn.state = "Handshaking" /\ ~cn.upstream_connected

\* C14 (as claimed): a first packet whose id is not 0x00 ends the connection in
\* Handshaking: no route is resolved, nothing is written to the client and no
\* upstream connection is opened.
C14_FirstPacketId ==
    (WellFormed /\ cn.input.id # 0 /\ cn.pc # "handshake")
    => /\ cn.pc = "done" /\ cn.state = "Handshaking"
       /\ cn.route = 0 /\ cn.to_client = <<>> /\ ~cn.upstream_connected

\* C23 (as claimed): in a Status exchange the proxy answers itself (the upstream
\* connect failed), every reply to a ping is an id 0x01 packet with the 8 bytes of
\* the request, it is the last packet written to the client and handle has returned.
C23_PingEchoThenClose ==
    (cn.state = "Status" /\ ~cn.connect_ok)
    => \A i \in 1..Len(cn.to_client) :
           cn.to_client[i].id = 1
           => /\ cn.to_client[i].payload = [bytes |-> SubSeq(PingRequest, 3, 10)]
              /\ i = Len(cn.to_client)
              /\ cn.pc = "done"

\* C30 (as claimed): once handle has connected a Status or Login connection to its
\* upstream, the first packet sent to the upstream is a handshake (id 0x00) with the
\* client's protocol version and next_state.
C30_HandshakeReplayed ==
    (/\ WellFormed /\ cn.input.id = 0 /\ cn.input.next_state \in {1, 2}
     /\ cn.upstream_connected)
    => /\ cn.to_server # <<>>
       /\ cn.to_server[1].id = 0
       /\ "handshake" \in DOMAIN cn.to_server[1].payload
       /\ cn.to_server[1].payload.handshake.protocol_version = ProtocolVersion
       /\ cn.to_server[1].payload.handshake.next_state = cn.input.next_state

\* no route of the proxy is for the host the handshake names
NoRouteMatches ==
    \A r \in 1..Len(cn.proxy.routes) : cn.proxy.routes[r].from # cn.input.server_address

\* C32: a handshake for a host no route has, under the fallback Drop, whatever its
\* next_state: nothing is ever written to the client, no upstream connection is
\* opened and nothing is sent upstream, and once the handshake is taken the
\* connection is over.
C32_DropIsSilent ==
    (WellFormed /\ NoRouteMatches /\ cn.proxy.fallback_method.kind = "Drop")
    => /\ cn.to_client = <<>> /\ cn.to_server = <<>> /\ ~cn.upstream_connected
       /\ cn.pc # "handshake" => cn.pc = "done" /\ cn.ret = "Ok"

\* a login handshake for the host "b" was dropped by a proxy that routes "a"
C32_Witness ==
    /\ WellFormed /\ NoRouteMatches /\ cn.proxy.fallback_method.kind = "Drop"
    /\ cn.proxy.routes # <<>> /\ cn.input.id = 0 /\ cn.input.next_state = 2
    /\ cn.pc = "done" /\ ~cn.client_eof

\* C33 (as claimed): in a Status exchange the proxy answers itself (no route under
\* the fallback Status, or the upstream connect failed), answering the status
\* request leaves the connection open in Status: while the status response is the
\* last packet written to a client that has not closed, handle has not returned,
\* so the ping that follows is still read and echoed.
C33_StatusThenPing ==
    (/\ WellFormed /\ cn.input.id = 0 /\ cn.input.next_state = 1 /\ ~cn.client_eof
     /\ \/ NoRouteMatches /\ cn.proxy.fallback_method.kind = "Status"
        \/ ~NoRouteMatches /\ ~cn.connect_ok
     /\ cn.to_client # <<>> /\ cn.to_client[Len(cn.to_client)].id = 0)
    => cn.pc # "done"

\* the lengths of the prefixes of `bytes`, from `at` on, that end where a packet ends
RECURSIVE PacketEnds(_, _)
PacketEnds(bytes, at) ==
    LET packet == ReadPacket(Rest(bytes, at + 1))
    IN  {at} \cup (IF packet.tag = "Ok" THEN PacketEnds(bytes, at + packet.consumed) ELSE {})

\* C34 (as claimed): while a bridge relays a Status or a Login exchange, what each
\* side has received is a run of whole packets, each equal in id and payload to the
\* packet the other side sent: the bytes written are the bytes of the first packets
\* of the sender, up to the end of one of them.
C34_RelayEquality ==
    br.state \in {"Status", "Login"}
    => /\ Len(br.to_client) \in PacketEnds(br.from_server, 0)
       /\ br.to_client = SubSeq(br.from_server, 1, Len(br.to_client))
       /\ Len(br.to_server) \in PacketEnds(br.from_client, 0)
       /\ br.to_server = SubSeq(br.from_client, 1, Len(br.to_server))

-----------------------------------------------------------------------------
(* src/server.rs: Server::spawn, the supervisor of one listener, and         *)
(* Server::listen.  Time is counted in the seconds the supervisor has slept. *)

Restarts    == 5       \* let mut remaining = 5
BackoffSecs == 5       \* Duration::from_secs(5)

MaxAccepts == 2        \* connections one call of listen accepts before it fails

ListenAddr == "127.0.0.1:25565"

InitServer ==
    /\ sv = [remaining |-> Restarts, pc |-> "loop",
             listen_addr |-> ListenAddr,
             slept |-> 0,                    \* seconds slept so far
             starts |-> <<>>,                \* each call of listen: when, and on which address
             failures |-> <<>>,              \* how each call of listen failed
             accepted |-> 0]                 \* connections accepted by the running listen
    /\ InitCodecIdle /\ InitCryptIdle /\ InitSelIdle /\ InitProxyIdle /\ InitBridgeIdle
    /\ InitConnIdle /\ InitFramerIdle /\ InitListenIdle
    /\ InitConfigIdle

NotServer == <<codecVars, cryptVars, selVars, proxyVars, bridgeVars, connVars,
              framerVars, listenVars, configVars>>

\* mutant: the supervisor gives up while one start is left
ExhaustedEarly(remaining) == remaining <= 1

\* mutant: the supervisor gives up on the first failure
ExhaustedAlways(remaining) == remaining >= 0

\* if remaining == 0
Exhausted(remaining) == remaining = 0

\* the top of the supervisor's loop: remaining -= 1; self.listen()
ServerStart ==
    /\ sv.pc = "loop"
    /\ sv' = [sv EXCEPT !.remaining = @ - 1, !.pc = "bind", !.accepted = 0,
                        !.starts = Append(@, [at |-> sv.slept, addr |-> sv.listen_addr])]
    /\ UNCHANGED NotServer

\* listen: TcpListener::bind(..).await.context(..)?
ServerBind ==
    /\ sv.pc = "bind"
    /\ \/ sv' = [sv EXCEPT !.pc = "accept"]
       \/ sv' = [sv EXCEPT !.pc = "failed", !.failures = Append(@, "bind")]
    /\ UNCHANGED NotServer

\* listen: one pass of the accept loop
ServerAccept ==
    /\ sv.pc = "accept"
    /\ \/ /\ sv.accepted < MaxAccepts
          /\ sv' = [sv EXCEPT !.accepted = @ + 1]
       \/ sv' = [sv EXCEPT !.pc = "failed", !.failures = Append(@, "accept")]
    /\ UNCHANGED NotServer

\* the Err arm of the supervisor's match, up to the sleep
ServerFailed ==
    /\ sv.pc = "failed"
    /\ sv' = [sv EXCEPT !.pc = IF Exhausted(sv.remaining) THEN "down" ELSE "sleep"]
    /\ UNCHANGED NotServer

\* tokio::time::sleep(Duration::from_secs(5)).await, then the next pass of the loop
ServerSleep ==
    /\ sv.pc = "sleep"
    /\ sv' = [sv EXCEPT !.slept = @ + BackoffSecs, !.pc = "loop"]
    /\ UNCHANGED NotServer

NextServer == ServerStart \/ ServerBind \/ ServerAccept \/ ServerFailed \/ ServerSleep

SpecServer == InitServer /\ [][NextServer]_vars

\* the supervisor is a spawned task: it is scheduled whenever it can run, and its
\* sleep ends
SpecServerLive ==
    SpecServer /\ WF_vars(ServerStart) /\ WF_vars(ServerFailed) /\ WF_vars(ServerSleep)

\* C19: listen is called at most 5 times, the k-th call after exactly k - 1 backoff
\* delays of 5 seconds; once the fifth call has failed the supervisor is down for
\* good: it has slept 4 times and can take no further step.
C19_BoundedRestarts ==
    /\ sv.remaining \in 0..5 /\ Len(sv.starts) = 5 - sv.remaining
    /\ \A k \in DOMAIN sv.starts : sv.starts[k].at = 5 * (k - 1)
    /\ sv.slept \in {5 * (Len(sv.starts) - 1), 5 * Len(sv.starts)}
    /\ sv.pc = "down" => /\ Len(sv.starts) = 5 /\ Len(sv.failures) = 5
                         /\ sv.slept = 20
                         /\ ~ENABLED NextServer

C19_Witness == sv.pc = "down" /\ sv.failures[5] = "accept" /\ sv.failures[1] = "bind"

-----------------------------------------------------------------------------
(* src/io/mod.rs, src/io/sync.rs: the compressed envelope, and the buffers  *)
(* the readers allocate (vec![0u8; n]) from the lengths declared on the     *)
(* wire.                                                                    *)

\* the two sums of the Adler-32 checksum after `data`
RECURSIVE Adler32Sums(_, _, _)
Adler32Sums(data, a, b) ==
    IF data = <<>> THEN [a |-> a, b |-> b]
    ELSE LET a2 == (a + data[1]) % 65521
         IN  Adler32Sums(Tail(data), a2, (b + a2) % 65521)

\* the checksum as it ends a zlib stream: b then a, big-endian
Adler32(data) ==
    LET s == Adler32Sums(data, 1, 0)
    IN  <<s.b \div 256, s.b % 256, s.a \div 256, s.a % 256>>

\* the zlib stream a peer makes of `data` with one stored deflate block: the header
\* 78 01, the block header 01 (final, stored), LEN and its complement (little-endian),
\* the data, the checksum
ZlibStored(data) ==
    <<120, 1, 1, Len(data) % 256, Len(data) \div 256,
      255 - (Len(data) % 256), 255 - (Len(data) \div 256)>> \o data \o Adler32(data)

DecompressFailed == "failed to decompress packet"

\* decompress_to_vec_zlib(&compressed_data).map_err(..), on streams of one stored
\* block (Huffman blocks are not generated): the header, the block and the checksum
\* are checked and the data of the block is returned
DecompressToVecZlib(body) ==
    IF Len(body) < 7 THEN Err(DecompressFailed, 0)
    ELSE LET len == body[4] + 256 * body[5]
         IN  IF \/ body[1] % 16 # 8 \/ (body[1] * 256 + body[2]) % 31 # 0
                \/ (body[2] \div 32) % 2 = 1
                \/ body[3] # 1
                \/ body[6] # 255 - body[4] \/ body[7] # 255 - body[5]
                \/ Len(body) < len + 11
                \/ SubSeq(body, len + 8, len + 11) # Adler32(SubSeq(body, 8, len + 7))
             THEN Err(DecompressFailed, 0)
             ELSE Ok(SubSeq(body, 8, len + 7), len + 11)

\* CompressedPacket::decompress
Decompress(envelope) ==
    LET data == IF envelope.data_length = 0 THEN Ok(envelope.compressed_data, 0)
                ELSE DecompressToVecZlib(envelope.compressed_data)
    IN  IF data.tag = "Err" THEN data
        ELSE LET id == ReadVarInt(data.value)                          \* read_var_int(&mut cursor)?
             IN  IF id.tag = "Err" THEN id
                 ELSE LET id_length == VarIntLength(id.value)
                      IN  IF id_length.tag = "Hang" THEN Hang
                          \* data.drain(..var_int_length(id))
                          ELSE Ok([id |-> id.value,
                                   data |-> Rest(data.value, id_length.value + 1)], 0)

\* CompressedPacket::into_raw: the bytes of an envelope on the wire
IntoRaw(envelope) ==
    WriteVarInt(envelope.packet_length) \o WriteVarInt(envelope.data_length)
        \o envelope.compressed_data

\* read_compressed_packet on a stream holding `bytes`
ReadCompressedPacket(bytes) ==
    LET packet_length == ReadVarInt(bytes)
    IN  IF packet_length.tag = "Err" THEN packet_length
        ELSE LET data_length == ReadVarInt(Rest(bytes, packet_length.consumed + 1))
                 at == packet_length.consumed + data_length.consumed
             IN  IF data_length.tag = "Err" THEN Err(data_length.error, at)
                 \* a negative length `as usize` is above isize::MAX: vec![0u8; n] panics
                 ELSE IF data_length.value < 0 THEN Panic("capacity")
                 ELSE IF Len(bytes) - at < data_length.value              \* read_exact
                      THEN Err(UnexpectedEof, Len(bytes))
                 ELSE Ok([packet_length |-> packet_length.value,
                          data_length |-> data_length.value,
                          compressed_data |-> SubSeq(bytes, at + 1, at + data_length.value)],
                         at + data_length.value)

\* The buffers a reader allocates with vec![0u8; n] before it fills them: <<n>>, and
\* <<>> when the call ends before the allocation.  (An allocation the system cannot
\* make aborts the process; one it can make is followed by read_exact.)
ReadStringBuffers(bytes) ==
    LET len == ReadVarInt(bytes)
    IN  IF len.tag = "Ok" /\ len.value >= 0 THEN <<len.value>> ELSE <<>>

ReadUncompressedPacketBuffers(bytes) ==
    LET length == ReadVarInt(bytes)
    IN  IF length.tag # "Ok" \/ length.value <= 0 THEN <<>>
        ELSE LET id == ReadVarInt(Rest(bytes, length.consumed + 1))
             IN  IF id.tag # "Ok" THEN <<>>
                 ELSE LET id_length == VarIntLength(id.value)
                      IN  IF id_length.tag = "Hang" THEN <<>>
                          ELSE IF length.value < id_length.value THEN <<>>
                          ELSE <<length.value - id_length.value>>

ReadCompressedPacketBuffers(bytes) ==
    LET packet_length == ReadVarInt(bytes)
    IN  IF packet_length.tag # "Ok" THEN <<>>
        ELSE LET data_length == ReadVarInt(Rest(bytes, packet_length.consumed + 1))
             IN  IF data_length.tag = "Ok" /\ data_length.value >= 0
                 THEN <<data_length.value>> ELSE <<>>

(* The framer specification: calls on one incoming stream and on one        *)
(* envelope.                                                                *)

MaxFramerCalls == 2     \* calls made in one run

\* what a peer puts in an envelope: the packet {id, data}, below the compression
\* threshold (data_length 0, the packet verbatim) or compressed
Enveloped(packet, compressed) ==
    LET raw == WriteVarInt(packet.id) \o packet.data
    IN  IF compressed
        THEN [packet_length |-> Len(WriteVarInt(Len(raw))) + Len(ZlibStored(raw)),
              data_length |-> Len(raw), compressed_data |-> ZlibStored(raw)]
        ELSE [packet_length |-> 1 + Len(raw), data_length |-> 0, compressed_data |-> raw]

FramerPackets == [id : {0, 128, -1}, data : {<<>>, <<7>>}]

\* a packet whose id 0 is written in two bytes, and a body that is not a zlib stream
PaddedIdEnvelope == [packet_length |-> 4, data_length |-> 0, compressed_data |-> <<128, 0, 7>>]
CorruptEnvelope  == [packet_length |-> 3, data_length |-> 2, compressed_data |-> <<1, 2>>]

Envelopes == {Enveloped(p, c) : p \in FramerPackets, c \in BOOLEAN}
                 \cup {PaddedIdEnvelope, CorruptEnvelope}

\* streams whose first or second varint declares 2^31 - 1 bytes, a string, a packet
LengthStreams ==
    {<<255, 255, 255, 255, 7, 0>>, <<6, 255, 255, 255, 255, 7, 0>>,
     <<2, 104, 105, 0>>, <<3, 5, 7, 9, 1, 0>>}

\* a stream is an envelope followed by the packet 01 00, or one of LengthStreams
FramerInputs ==
    {[stream |-> IntoRaw(e) \o <<1, 0>>, envelope |-> e] : e \in Envelopes}
        \cup {[stream |-> s, envelope |-> CorruptEnvelope] : s \in LengthStreams}

InitFramer ==
    /\ \E in \in FramerInputs : fr = [stream |-> in.stream, envelope |-> in.envelope,
                                      calls |-> <<>>]
    /\ InitCodecIdle /\ InitCryptIdle /\ InitSelIdle /\ InitProxyIdle /\ InitBridgeIdle
    /\ InitConnIdle /\ InitServerIdle /\ InitListenIdle
    /\ InitConfigIdle

NotFramer == <<codecVars, cryptVars, selVars, proxyVars, bridgeVars, connVars, serverVars,
               listenVars, configVars>>

\* the thread can make one more call: none has panicked or is stuck
FramerLive ==
    /\ Len(fr.calls) < MaxFramerCalls
    /\ \A i \in 1..Len(fr.calls) : fr.calls[i].res.tag \notin {"Hang", "Panic"}

\* a read on the stream: the bytes it consumed are gone from it
FramerRead(op, res, buffers) ==
    fr' = [fr EXCEPT
             !.stream = IF res.tag \in {"Ok", "Err"} THEN Rest(@, res.consumed + 1) ELSE @,
             !.calls = Append(@, [op |-> op, arg |-> fr.stream, res |-> res,
                                  buffers |-> buffers])]

\* stream.read_string()
CallReadString ==
    /\ FramerLive
    /\ FramerRead("read_string", ReadString(fr.stream), ReadStringBuffers(fr.stream))
    /\ UNCHANGED NotFramer

\* stream.read_uncompressed_packet()
CallFramerReadUncompressedPacket ==
    /\ FramerLive
    /\ FramerRead("read_uncompressed_packet", ReadUncompressedPacket(fr.stream),
                  ReadUncompressedPacketBuffers(fr.stream))
    /\ UNCHANGED NotFramer

\* stream.read_compressed_packet()
CallReadCompressedPacket ==
    /\ FramerLive
    /\ FramerRead("read_compressed_packet", ReadCompressedPacket(fr.stream),
                  ReadCompressedPacketBuffers(fr.stream))
    /\ UNCHANGED NotFramer

\* envelope.decompress()
CallDecompress ==
    /\ FramerLive
    /\ fr' = [fr EXCEPT !.calls = Append(@, [op |-> "decompress", arg |-> fr.envelope,
                                             res |-> Decompress(fr.envelope),
                                             buffers |-> <<>>])]
    /\ UNCHANGED NotFramer

NextFramer ==
    \/ CallReadString
    \/ CallFramerReadUncompressedPacket
    \/ CallReadCompressedPacket
    \/ CallDecompress

SpecFramer == InitFramer /\ [][NextFramer]_vars

\* C22 (as claimed): no reader allocates a buffer above the configured maximum from
\* a length it took from the wire.  Stated for the most generous maximum a
\* configuration could set, 2^30 bytes: a declaration of 2^31 - 1 bytes, the largest a
\* varint can carry, allocates nothing.
C22_BoundedAllocation ==
    \A i \in 1..Len(fr.calls) :
        \A j \in 1..Len(fr.calls[i].buffers) : fr.calls[i].buffers[j] <= 2^30

\* C26 (as claimed): decompress on an envelope whose plain bytes (the body when
\* data_length = 0, inflate(body) otherwise) start with a whole varint id returns the
\* packet made of that id and of the bytes after the id varint.
C26_Decompress ==
    \A i \in 1..Len(fr.calls) :
        fr.calls[i].op = "decompress"
        => LET envelope == fr.calls[i].arg
               plain == IF envelope.data_length = 0 THEN Ok(envelope.compressed_data, 0)
                        ELSE DecompressToVecZlib(envelope.compressed_data)
               id    == ReadVarInt(plain.value)
           IN  (plain.tag = "Ok" /\ id.tag = "Ok")
               => fr.calls[i].res = Ok([id |-> id.value,
                                        data |-> Rest(plain.value, id.consumed + 1)], 0)

\* C27 (as claimed): read_compressed_packet on a stream that holds packet_length,
\* data_length and the rest of the packet_length bytes returns the two lengths and
\* the body (data_length bytes when data_length > 0, the rest of the packet when
\* data_length = 0), and has consumed that envelope and nothing else.
C27_ReadCompressedPacket ==
    \A i \in 1..Len(fr.calls) :
        fr.calls[i].op = "read_compressed_packet"
        => LET stream == fr.calls[i].arg
               res    == fr.calls[i].res
               packet_length == ReadVarInt(stream)
               data_length   == ReadVarInt(Rest(stream, packet_length.consumed + 1))
               at     == packet_length.consumed + data_length.consumed
               end    == packet_length.consumed + packet_length.value
           IN  (/\ packet_length.tag = "Ok" /\ data_length.tag = "Ok"
                /\ data_length.value >= 0 /\ data_length.consumed <= packet_length.value
                /\ end <= Len(stream))
               => /\ res.tag = "Ok"
                  /\ res.consumed = end
                  /\ res.value.packet_length = packet_length.value
                  /\ res.value.data_length = data_length.value
                  /\ res.value.compressed_data =
                         IF data_length.value > 0
                         THEN SubSeq(stream, at + 1, at + data_length.value)
                         ELSE SubSeq(stream, at + 1, end)

-----------------------------------------------------------------------------
\* proxy::listen (src/proxy.rs): the accept loop and the task spawned for
\* every accepted connection.  main (src/main.rs) has the same loop.

MaxConns == 2       \* accept() calls answered by the listener

\* What one client does, as far as handle can tell: whether its handshake
\* frames, what the handshake asks for, and how the exchange that follows
\* the dispatch ends ("Ok", a refused upstream connect, an I/O error, or a
\* panic of the task).
ConnInputs ==
    {[handshake_ok |-> FALSE, server_address |-> <<"a">>, next_state |-> 1, io |-> "Ok"],
     [handshake_ok |-> TRUE,  server_address |-> <<"a">>, next_state |-> 1, io |-> "Ok"],
     [handshake_ok |-> TRUE,  server_address |-> <<"a">>, next_state |-> 2, io |-> "Ok"],
     [handshake_ok |-> TRUE,  server_address |-> <<"a">>, next_state |-> 3, io |-> "Ok"],
     [handshake_ok |-> TRUE,  server_address |-> <<"a">>, next_state |-> 2, io |-> "connect failed"],
     [handshake_ok |-> TRUE,  server_address |-> <<"a">>, next_state |-> 2, io |-> "io error"],
     [handshake_ok |-> TRUE,  server_address |-> <<"a">>, next_state |-> 2, io |-> "panicked"],
     [handshake_ok |-> TRUE,  server_address |-> <<"b">>, next_state |-> 1, io |-> "Ok"]}

ListenProxies ==
    [routes : {<<[from |-> <<"a">>, to |-> t, selection_algorithm |-> k]>> :
                   t \in {<<"T1", "T2">>, <<"T1", "T2", "T3">>},
                   k \in {"RoundRobin", "Random"}},
     fallback_method : {[kind |-> "Drop"], [kind |-> "Status"]}]

\* handle(proxy, client_stream, client_addr) from the task's point of view:
\* the handshake read, the dispatch, then whatever the dispatched exchange
\* returns.  It reads the shared Proxy and its own stream, nothing else.
TaskResult(proxy, input) ==
    IF ~input.handshake_ok
    THEN [route |-> 0, server_addr |-> 0, did |-> "none", ret |-> "handshake error"]
    ELSE LET r == HandleResult(proxy, input)
         IN  IF r.ret = "Ok" /\ r.did \in {"handle_upstream_status", "handle_upstream_login"}
             THEN IF input.io = "connect failed"
                  \* "Failed to connect to upstream server" goes to the
                  \* client and the handler returns Ok(())
                  THEN [r EXCEPT !.did = "connect failed message"]
                  ELSE [r EXCEPT !.ret = input.io]
             ELSE r

\* The spawned task is detached (its JoinHandle is dropped) and its body
\* turns an Err into a warn! line: no result of a task reaches the loop.
ListenerAfterPropagate(pc, ret) == IF ret = "Ok" THEN pc ELSE "returned"
ListenerAfter(pc, ret) == pc

InitListen ==
    /\ ls \in [proxy : ListenProxies, pc : {"bind"}, ret : {"running"},
               accepts : {0}, tasks : {<<>>}, bridging : {<<>>}, warnings : {<<>>}]
    /\ InitCodecIdle /\ InitCryptIdle /\ InitSelIdle /\ InitProxyIdle
    /\ InitBridgeIdle /\ InitConnIdle /\ InitServerIdle /\ InitFramerIdle
    /\ InitConfigIdle

NotListen == <<codecVars, cryptVars, selVars, proxyVars, bridgeVars, connVars,
               serverVars, framerVars, configVars>>

ListenLive == ls # Idle

\* TcpListener::bind(proxy.listen_addr): an error is logged and returned.
ListenBind ==
    /\ ListenLive /\ ls.pc = "bind"
    /\ \E ok \in BOOLEAN :
           ls' = IF ok THEN [ls EXCEPT !.pc = "accept"]
                 ELSE [ls EXCEPT !.pc = "returned", !.ret = "bind error"]
    /\ UNCHANGED NotListen

\* listener.accept() answers Ok: the loop spawns a task for the connection.
ListenAccept ==
    /\ ListenLive /\ ls.pc = "accept" /\ ls.accepts < MaxConns
    /\ \E input \in ConnInputs :
           ls' = [ls EXCEPT !.accepts = @ + 1,
                            !.tasks = Append(@, [input |-> input, status |-> "running",
                                                 out |-> Idle,
                                                 warned_before |-> Len(ls.warnings)])]
    /\ UNCHANGED NotListen

\* listener.accept() answers Err: `continue`.
ListenAcceptFailed ==
    /\ ListenLive /\ ls.pc = "accept" /\ ls.accepts < MaxConns
    /\ ls' = [ls EXCEPT !.accepts = @ + 1]
    /\ UNCHANGED NotListen

\* One spawned task runs handle to its end.
TaskHandle ==
    /\ ListenLive
    /\ \E i \in 1..Len(ls.tasks) :
           /\ ls.tasks[i].status = "running"
           /\ LET out == TaskResult(ls.proxy, ls.tasks[i].input)
              IN  ls' = [ls EXCEPT
                      !.tasks[i].status = "done",
                      !.tasks[i].out = out,
                      !.bridging = IF out.route # 0
                                   THEN Append(@, [task |-> i, route |-> out.route,
                                                   server_addr |-> out.server_addr])
                                   ELSE @,
                      !.warnings = IF out.ret \notin {"Ok", "panicked"}
                                   THEN Append(@, [task |-> i, err |-> out.ret])
                                   ELSE @,
                      !.pc = ListenerAfter(@, out.ret)]
    /\ UNCHANGED NotListen

NextListen == ListenBind \/ ListenAccept \/ ListenAcceptFailed \/ TaskHandle

SpecListen == InitListen /\ [][NextListen]_vars

\* C21: an error raised while handling one connection ends that connection
\* only: once bound, the listener stays in its accept loop and can accept
\* again whatever the tasks returned, a failed task leaves a warning and
\* nothing else, and every task's result is the one its own input gives.
C21_ListenerIsolation ==
    (ListenLive /\ ls.pc # "bind" /\ ls.ret # "bind error")
    => /\ ls.pc = "accept" /\ ls.ret = "running"
       /\ (ls.accepts < MaxConns => ENABLED ListenAccept)
       /\ \A i \in 1..Len(ls.tasks) :
              ls.tasks[i].status = "done"
              => ls.tasks[i].out = TaskResult(ls.proxy, ls.tasks[i].input)

\* A connection failed, and a connection accepted after that failure was
\* handled to a successful end.
C21_Witness ==
    /\ ListenLive
    /\ \E i, j \in 1..Len(ls.tasks) :
           /\ i < j
           /\ ls.tasks[i].status = "done" /\ ls.tasks[i].out.ret = "io error"
           /\ ls.tasks[j].warned_before > 0
           /\ ls.tasks[j].status = "done" /\ ls.tasks[j].out.ret = "Ok"
           /\ ls.tasks[j].out.did = "handle_upstream_login"

\* The targets handle picked for route r, in the order it picked them.
Picks(r) == SelectSeq(ls.bridging, LAMBDA b : b.route = r)

\* C29: the route's selection strategy chooses the target of every
\* connection: under round-robin, successive connections to a route with
\* targets T1..Tn go to T1, T2, .., Tn, T1, ..
C29_SelectionStrategy ==
    ListenLive
    => \A r \in 1..Len(ls.proxy.routes) :
           ls.proxy.routes[r].selection_algorithm = "RoundRobin"
           => \A k \in 1..Len(Picks(r)) :
                  Picks(r)[k].server_addr
                      = ls.proxy.routes[r].to[((k - 1) % Len(ls.proxy.routes[r].to)) + 1]

-----------------------------------------------------------------------------
\* ConfigV1::build (src/config/v1.rs): the proxies of a configuration file.
\* An Option is a sequence: <<>> for None, <<v>> for Some(v).

MaxEntries == 2     \* [[proxies]] entries of the configuration file

\* ProxyEntry values as serde hands them to build: the singular key, the
\* plural key, both or neither, for the address, the domain and the target.
ConfigEntries ==
    {[address |-> <<"X">>, addresses |-> <<>>, domain |-> <<"a">>, domains |-> <<>>,
      target |-> <<"T1">>, targets |-> <<>>, selection_algorithm |-> <<>>],
     [address |-> <<>>, addresses |-> <<"X", "Y">>, domain |-> <<>>, domains |-> <<"a", "b">>,
      target |-> <<>>, targets |-> <<"T1", "T2">>, selection_algorithm |-> <<"Random">>],
     [address |-> <<>>, addresses |-> <<>>, domain |-> <<"a">>, domains |-> <<>>,
      target |-> <<"T1">>, targets |-> <<>>, selection_algorithm |-> <<>>],
     [address |-> <<"X">>, addresses |-> <<>>, domain |-> <<>>, domains |-> <<>>,
      target |-> <<"T1">>, targets |-> <<>>, selection_algorithm |-> <<>>],
     [address |-> <<"Y">>, addresses |-> <<>>, domain |-> <<"b">>, domains |-> <<>>,
      target |-> <<>>, targets |-> <<>>, selection_algorithm |-> <<"RoundRobin">>],
     [address |-> <<"X">>, addresses |-> <<>>, domain |-> <<>>, domains |-> <<"a", "a">>,
      target |-> <<"T1">>, targets |-> <<>>, selection_algorithm |-> <<"RoundRobin">>],
     [address |-> <<>>, addresses |-> <<"X", "X">>, domain |-> <<"b">>, domains |-> <<>>,
      target |-> <<>>, targets |-> <<"T2">>, selection_algorithm |-> <<>>],
     [address |-> <<"Y">>, addresses |-> <<"X">>, domain |-> <<"a">>, domains |-> <<"b">>,
      target |-> <<"T1">>, targets |-> <<"T2">>, selection_algorithm |-> <<"Random">>]}

ConfigFiles == UNION {[1..n -> ConfigEntries] : n \in 0..MaxEntries}

\* proxy.address.map(|addr| vec![addr]).unwrap_or_else(|| proxy.addresses)
EntryAddresses(proxy) == IF proxy.address # <<>> THEN proxy.address ELSE proxy.addresses

\* proxy.domain.clone().map(|domain| vec![domain]).unwrap_or_else(|| proxy.domains.clone())
EntryDomains(proxy) == IF proxy.domain # <<>> THEN proxy.domain ELSE proxy.domains

\* proxy.target.map(|target| vec![target]).unwrap_or_else(|| proxy.targets.clone())
EntryTargets(proxy) == IF proxy.target # <<>> THEN proxy.target ELSE proxy.targets

\* `if targets.is_empty() { warn!(..); continue; }`
TargetsRejectedNever(targets) == FALSE
TargetsRejected(targets) == targets = <<>>

\* proxy.selection_algorithm.clone().map(..).unwrap_or_default()
SelectionKind(selection_algorithm) ==
    IF selection_algorithm = <<>> THEN "RoundRobin" ELSE selection_algorithm[1]

\* domains.iter().map(|domain| Route { .. }).collect()
BuildRoutes(proxy, domains, targets) ==
    [d \in 1..Len(domains) |->
        [from |-> domains[d], to |-> targets,
         selection_algorithm |-> SelectionKind(proxy.selection_algorithm)]]

\* entry.routes.iter().any(|route| domains.contains(&route.from))
AlreadySpecified(entry, domains) ==
    \E r \in 1..Len(entry.routes) :
        \E d \in 1..Len(domains) : domains[d] = entry.routes[r].from

\* One turn of `for address in addresses`: the proxies map afterwards and
\* the warning logged, if any.
BuildAddress(proxies, proxy, address) ==
    LET domains == EntryDomains(proxy)
        targets == EntryTargets(proxy)
        routes  == BuildRoutes(proxy, domains, targets)
    IN  IF domains = <<>>
        THEN [proxies |-> proxies, warn |-> <<"does not specify any domains">>]
        ELSE IF TargetsRejected(targets)
        THEN [proxies |-> proxies, warn |-> <<"does not specify any targets">>]
        ELSE IF address \in DOMAIN proxies
        THEN IF AlreadySpecified(proxies[address], domains)
             THEN [proxies |-> proxies, warn |-> <<"have already been specified">>]
             ELSE [proxies |-> [proxies EXCEPT ![address].routes = @ \o routes],
                   warn |-> <<>>]
        ELSE [proxies |-> [a \in DOMAIN proxies \cup {address} |->
                              IF a = address
                              THEN [protocol_version |-> ProtocolVersion,
                                    listen_addr |-> address,
                                    fallback_method |-> [kind |-> "Drop"],
                                    routes |-> routes]
                              ELSE proxies[a]],
              warn |-> <<>>]

\* the orders in which proxies.into_values() can yield the map's values
ValueOrders(proxies) ==
    {o \in [1..Cardinality(DOMAIN proxies) -> DOMAIN proxies] :
        \A k, l \in DOMAIN o : k # l => o[k] # o[l]}

InitConfig ==
    /\ cf \in [entries : ConfigFiles, debug : BOOLEAN, i : {1}, j : {1},
               proxies : {<<>>}, warnings : {<<>>}, ret : {Idle}]
    /\ InitCodecIdle /\ InitCryptIdle /\ InitSelIdle /\ InitProxyIdle
    /\ InitBridgeIdle /\ InitConnIdle /\ InitServerIdle /\ InitFramerIdle
    /\ InitListenIdle

NotConfig == <<codecVars, cryptVars, selVars, proxyVars, bridgeVars, connVars,
               serverVars, framerVars, listenVars>>

ConfigLive == cf # Idle /\ cf.ret = Idle

\* An entry without addresses is skipped with a warning.
BuildEntryIgnored ==
    /\ ConfigLive /\ cf.i <= Len(cf.entries)
    /\ EntryAddresses(cf.entries[cf.i]) = <<>>
    /\ cf' = [cf EXCEPT !.i = @ + 1, !.j = 1,
                        !.warnings = Append(@, "did not provide any addresses")]
    /\ UNCHANGED NotConfig

\* One address of the current entry; after the last one the next entry.
BuildEntryAddress ==
    /\ ConfigLive /\ cf.i <= Len(cf.entries)
    /\ LET proxy     == cf.entries[cf.i]
           addresses == EntryAddresses(proxy)
       IN  /\ cf.j <= Len(addresses)
           /\ LET step == BuildAddress(cf.proxies, proxy, addresses[cf.j])
              IN  cf' = [cf EXCEPT !.proxies = step.proxies,
                                   !.warnings = @ \o step.warn,
                                   !.j = IF cf.j = Len(addresses) THEN 1 ELSE @ + 1,
                                   !.i = IF cf.j = Len(addresses) THEN @ + 1 ELSE @]
    /\ UNCHANGED NotConfig

\* Ok(MagmaConfig { debug, proxies: proxies.into_values().collect() })
BuildReturn ==
    /\ ConfigLive /\ cf.i > Len(cf.entries)
    /\ \E o \in ValueOrders(cf.proxies) :
           cf' = [cf EXCEPT !.ret = [debug |-> cf.debug,
                                     proxies |-> [k \in DOMAIN o |-> cf.proxies[o[k]]]]]
    /\ UNCHANGED NotConfig

NextConfig == BuildEntryIgnored \/ BuildEntryAddress \/ BuildReturn

SpecConfig == InitConfig /\ [][NextConfig]_vars

Built == cf # Idle /\ cf.ret # Idle

\* C31: every Route of the MagmaConfig that build returns has a non-empty
\* `to` list (an entry without targets never becomes a route), so
\* route.to.first() and next_target have a target to return.
C31_NoEmptyTargets ==
    Built
    => \A p \in 1..Len(cf.ret.proxies) :
           \A r \in 1..Len(cf.ret.proxies[p].routes) :
               Len(cf.ret.proxies[p].routes[r].to) > 0

\* build returned a proxy although one of the entries had an address and a
\* domain but no target.
C31_Witness ==
    /\ Built
    /\ Len(cf.ret.proxies) > 0
    /\ \E e \in 1..Len(cf.entries) :
           /\ EntryAddresses(cf.entries[e]) # <<>>
           /\ EntryDomains(cf.entries[e]) # <<>>
           /\ EntryTargets(cf.entries[e]) = <<>>

\* an entry that names an address, a domain and a target
ValidEntry(proxy) ==
    EntryAddresses(proxy) # <<>> /\ EntryDomains(proxy) # <<>> /\ EntryTargets(proxy) # <<>>

\* C39: the MagmaConfig that build returns has exactly one Proxy for every
\* listen address named by a valid entry and none for any other address,
\* and within a Proxy no two routes have the same `from` domain.
C39_UniqueProxiesAndRoutes ==
    Built
    => LET ps == cf.ret.proxies
       IN  /\ \A k, l \in 1..Len(ps) : k # l => ps[k].listen_addr # ps[l].listen_addr
           /\ {ps[k].listen_addr : k \in 1..Len(ps)}
                  = UNION {{EntryAddresses(cf.entries[e])[a] :
                                a \in 1..Len(EntryAddresses(cf.entries[e]))} :
                           e \in {e \in 1..Len(cf.entries) : ValidEntry(cf.entries[e])}}
           /\ \A k \in 1..Len(ps) :
                  \A r, q \in 1..Len(ps[k].routes) :
                      r # q => ps[k].routes[r].from # ps[k].routes[q].from

====
